---------------------------- MODULE Spec2Model ----------------------------
(***************************************************************************)
(* Magnetic hysteresis engine of rsradia / rshyst: the Jiles-Atherton and  *)
(* the Preisach model, their common base class and the fixed-step          *)
(* integrators' sizing rule.                                               *)
(*                                                                         *)
(* Numbers.  The program computes in floating point; the model computes in *)
(* exact arithmetic.  A number is n/d * 10^e * MU0^u with n, d, e, u       *)
(* integers, kept in a canonical form (d > 0 coprime to n and to 10, n not *)
(* a multiple of 10), so that equal values are equal records.  MU0 (the    *)
(* vacuum permeability of constants.py) is kept as a symbol: only its      *)
(* powers occur, and they never mix in a sum.  NaN stands for numpy's nan  *)
(* (and inf): it is what a numpy division by zero yields and it propagates *)
(* through every operation; every comparison with it is false.             *)
(***************************************************************************)
EXTENDS Integers, Sequences, FiniteSets, TLC

\* Op applied to the value v: names a value that is used more than once
With(v, Op(_)) == Op(v)

Abs(x) == IF x < 0 THEN -x ELSE x

RECURSIVE GCD(_, _)
GCD(a, b) == IF b = 0 THEN a ELSE GCD(b, a % b)

RECURSIVE Pow10(_)
Pow10(k) == IF k = 0 THEN 1 ELSE 10 * Pow10(k - 1)

NaN == [n |-> 0, d |-> 0, e |-> 0, u |-> 0]

IsNaN(x) == x.d = 0

\* canonical form, step 3: powers of ten leave the numerator
RECURSIVE Strip10(_, _, _, _)
Strip10(n, d, e, u) ==
    IF n % 10 = 0 THEN Strip10(n \div 10, d, e + 1, u)
    ELSE [n |-> n, d |-> d, e |-> e, u |-> u]

\* canonical form, step 2: factors 2 and 5 leave the denominator
RECURSIVE Clear25(_, _, _, _)
Clear25(n, d, e, u) ==
    IF d % 10 = 0 THEN Clear25(n, d \div 10, e - 1, u)
    ELSE IF d % 2 = 0 THEN Clear25(5 * n, d \div 2, e - 1, u)
    ELSE IF d % 5 = 0 THEN Clear25(2 * n, d \div 5, e - 1, u)
    ELSE Strip10(n, d, e, u)

\* the number n/d * 10^e * MU0^u (d # 0) in canonical form
Num(n, d, e, u) ==
    IF n = 0 THEN [n |-> 0, d |-> 1, e |-> 0, u |-> 0]
    ELSE LET g == GCD(Abs(n), Abs(d))
             s == IF d < 0 THEN -1 ELSE 1
         IN  Clear25(s * (n \div g), s * (d \div g), e, u)

Q(n, d) == Num(n, d, 0, 0)

Zero == [n |-> 0, d |-> 1, e |-> 0, u |-> 0]

One == [n |-> 1, d |-> 1, e |-> 0, u |-> 0]

\* 1/2 in canonical form
Half == [n |-> 5, d |-> 1, e |-> -1, u |-> 0]

RNeg(x) == IF IsNaN(x) THEN NaN ELSE [x EXCEPT !.n = -x.n]

RAbs(x) == IF IsNaN(x) THEN NaN ELSE [x EXCEPT !.n = Abs(x.n)]

\* numpy.sign as an integer (0 for nan: callers test IsNaN first)
Sgn(x) == IF x.n > 0 THEN 1 ELSE IF x.n < 0 THEN -1 ELSE 0

RMul(x, y) ==
    IF IsNaN(x) \/ IsNaN(y) THEN NaN
    ELSE LET g1 == GCD(Abs(x.n), y.d)
             g2 == GCD(Abs(y.n), x.d)
         IN  Num((x.n \div g1) * (y.n \div g2), (x.d \div g2) * (y.d \div g1),
                 x.e + y.e, x.u + y.u)

\* numpy division: a zero divisor gives nan/inf, never an exception
RDiv(x, y) ==
    IF IsNaN(x) \/ IsNaN(y) \/ y.n = 0 THEN NaN
    ELSE RMul(x, Clear25(Sgn(y) * y.d, Abs(y.n), -y.e, -y.u))

\* x + y over the common denominator l and the smaller exponent e.  The power
\* of ten that lifts the other number to e is shared with the numerator at e:
\* what the two have in common (gx or gy, one of them 1) is taken out of the
\* sum and multiplied back, so that no numerator grows more than its value asks.
Aligned(x, y, e, l) ==
    LET gx == GCD(Abs(x.n), Pow10(y.e - e))
        gy == GCD(Abs(y.n), Pow10(x.e - e))
    IN  RMul(Num((x.n \div gx) * (Pow10(x.e - e) \div gy) * (l \div x.d)
                   + (y.n \div gy) * (Pow10(y.e - e) \div gx) * (l \div y.d),
                 l, e, x.u),
             Num(gx * gy, 1, 0, 0))

RAdd(x, y) ==
    IF IsNaN(x) \/ IsNaN(y) THEN NaN
    ELSE IF x.n = 0 THEN y
    ELSE IF y.n = 0 THEN x
    ELSE IF x.u # y.u THEN NaN
    ELSE Aligned(x, y, IF x.e < y.e THEN x.e ELSE y.e, (x.d \div GCD(x.d, y.d)) * y.d)

RSub(x, y) == RAdd(x, RNeg(y))

\* x < y for two positive numbers: a * 10^e < b by integer division, so that
\* no power of ten is multiplied into a large numerator
LtPos(x, y) ==
    LET a == x.n * y.d
        b == y.n * x.d
        e == x.e - y.e
    IN  IF e = 0 THEN a < b
        ELSE IF e > 9 THEN FALSE
        ELSE IF e < -9 THEN TRUE
        ELSE IF e > 0 THEN a < ((b - 1) \div Pow10(e)) + 1
        ELSE (a \div Pow10(-e)) < b

\* x < y; numbers carrying different powers of MU0 compare by sign only
RLt(x, y) ==
    IF IsNaN(x) \/ IsNaN(y) THEN FALSE
    ELSE IF x.n = 0 \/ y.n = 0 \/ Sgn(x) # Sgn(y) \/ x.u # y.u THEN Sgn(x) < Sgn(y)
    ELSE IF Sgn(x) > 0 THEN LtPos(x, y)
    ELSE LtPos(RNeg(y), RNeg(x))

RLe(x, y) == ~IsNaN(x) /\ ~IsNaN(y) /\ ~RLt(y, x)

RGt(x, y) == RLt(y, x)

RGe(x, y) == RLe(y, x)

\* the integer k as a number
I(k) == Num(k, 1, 0, 0)

\* floor and ceiling of a plain number (u = 0), as integers
Floor(x) ==
    IF x.e >= 0 THEN (x.n * Pow10(x.e)) \div x.d
    ELSE x.n \div (x.d * Pow10(-x.e))

Ceil(x) == -Floor(RNeg(x))

\* round() of the fraction N/D, D > 0: to the nearest integer, a tie to the even
RoundQ(N, D) ==
    IF 2 * (N % D) < D THEN N \div D
    ELSE IF 2 * (N % D) > D THEN (N \div D) + 1
    ELSE (N \div D) + ((N \div D) % 2)

\* Python's round() of a plain number (u = 0)
Round(x) ==
    IF x.e >= 0 THEN RoundQ(x.n * Pow10(x.e), x.d) ELSE RoundQ(x.n, x.d * Pow10(-x.e))

RECURSIVE SumSeq(_)
SumSeq(s) == IF s = <<>> THEN Zero ELSE RAdd(Head(s), SumSeq(Tail(s)))

\* numpy's a @ b for two vectors of one length
RECURSIVE Dot(_, _)
Dot(a, b) ==
    IF a = <<>> THEN Zero
    ELSE RAdd(RMul(Head(a), Head(b)), Dot(Tail(a), Tail(b)))

Last(s) == s[Len(s)]

\* the sequence f(1), ..., f(n) written as the program's lists are
Scale(cf, s) == [i \in DOMAIN s |-> RMul(cf, s[i])]

(***************************************************************************)
(* Unit names.  str.upper() is modelled on the names the model hands to    *)
(* the program; UNITS is the table of hysteresis_model.py / constants.py.  *)
(***************************************************************************)
UnitKeys == {"SI", "MM", "TESLA", "GAUSS"}

NameInputs == {"SI", "mm", "Tesla", "GAUSS", "CGS", ""}

\* a name compared as it is written, with no str.upper()
AsWritten(name) == name

Upper(name) ==
    CASE name = "mm" -> "MM"
      [] name = "Tesla" -> "TESLA"
      [] name = "rk4" -> "RK4"
      [] name = "euler" -> "EULER"
      [] name = "gaussian" -> "GAUSSIAN"
      [] OTHER -> name

MU0 == [n |-> 1, d |-> 1, e |-> 0, u |-> 1]

UNITS(key) ==
    CASE key = "SI" -> One
      [] key = "MM" -> [n |-> 1, d |-> 1, e |-> -3, u |-> 0]
      [] key = "TESLA" -> MU0
      [] key = "GAUSS" -> [n |-> 1, d |-> 1, e |-> 4, u |-> 1]

(***************************************************************************)
(* Density functions (distributions.py).  The values exp(...) of GAUSSIAN  *)
(* and GMIXTURE have no exact form: a profile stands for the positive      *)
(* values they take on the grid, by the 0-based indices (a, b) of a point. *)
(* "twin" is a mixture of equal mixands on the points next to the diagonal, *)
(* so narrow that exp(...) underflows to 0 at every other point.           *)
(***************************************************************************)
ProfileKeys == {"flat", "ridge", "skew", "twin"}

\* the unnormalised weight of grid point (a, b): "flat", "ridge" and "twin" are
\* unchanged by (alpha, beta) -> (-beta, -alpha), "skew" is not
Profile(profile, a, b) ==
    CASE profile = "flat" -> I(1)
      [] profile = "ridge" -> I(1 + (a - b) * (a - b))
      [] profile = "skew" -> I(1 + b)
      [] profile = "twin" -> IF b = a + 1 THEN I(1) ELSE I(0)

\* pX / pX.sum()
Normalised(pX) == Scale(RDiv(One, SumSeq(pX)), pX)

\* UNIFORM: n_grid = prod(grid.shape) is twice the number of points
UNIFORM(n_points) == [i \in 1..(2 * n_points) |-> Q(1, 2 * n_points)]

\* GAUSSIAN and GMIXTURE on the grid of (n_ab + 1)^2 points
GAUSSIAN(n_ab, profile) ==
    Normalised([i \in 1..((n_ab + 1) * (n_ab + 1)) |->
                  Profile(profile, (i - 1) \div (n_ab + 1), (i - 1) % (n_ab + 1))])

DistributionKeys == {"UNIFORM", "GAUSSIAN", "GMIXTURE"}

\* distribution(self._ab, *dist_params) for a name of distributions.py
Distribution(name, n_ab, profile) ==
    IF name = "UNIFORM" THEN UNIFORM((n_ab + 1) * (n_ab + 1)) ELSE GAUSSIAN(n_ab, profile)

(***************************************************************************)
(* A model object.  One record shape serves both classes; a field a class  *)
(* does not have stays at its default.  nInit, nUpper and nLower are not   *)
(* fields of the program: they record how many field samples each of the   *)
(* three sweeps of major-loop construction produced, and R_major records   *)
(* the hysteron states R after each sample of H_major.                     *)
(***************************************************************************)
NoModel ==
    [cls |-> "none", dH |-> Zero, units |-> Zero, H_major |-> <<>>,
     M_major |-> <<>>, remanence |-> <<>>, coercivity |-> <<>>,
     Ms |-> Zero, ab_max |-> Zero, ab |-> <<>>, density |-> <<>>,
     nInit |-> 0, nUpper |-> 0, nLower |-> 0, R_major |-> <<>>,
     alpha |-> Zero, a |-> Zero, k |-> Zero, c |-> Zero, wa |-> Zero, Ka |-> Zero,
     psi |-> Zero, theta |-> Zero, phi |-> Zero, integrator |-> "", mUpper |-> 0, B_major |-> <<>>, B_rem |-> <<>>]

\* HysteresisModel.__init__ of hysteresis_model.py: the exception it raises, or "ok"
BaseInit(dH, units) ==
    IF RLe(dH, Zero) THEN "ValueError"
    ELSE IF Upper(units) \notin UnitKeys THEN "ValueError"
    ELSE "ok"

(***************************************************************************)
(* Preisach model (rshyst/preisach.py on the base of hysteresis_model.py)  *)
(***************************************************************************)
\* the flat column of (alpha, beta) pairs on [-1, 1]^2, a in the outer loop
UnitGrid(n_ab) ==
    IF n_ab < 0 THEN <<>>
    ELSE IF n_ab = 0 THEN <<<<NaN, NaN>>>>
    ELSE [i \in 1..((n_ab + 1) * (n_ab + 1)) |->
            <<Q(2 * ((i - 1) \div (n_ab + 1)) - n_ab, n_ab),
              Q(2 * ((i - 1) % (n_ab + 1)) - n_ab, n_ab)>>]

\* density[ab[:,0] >= ab[:,1]] = 0
MaskLower(density, ab) ==
    [i \in DOMAIN density |-> IF RGe(ab[i][1], ab[i][2]) THEN Zero ELSE density[i]]

\* Preisach._get_grid: R = zeros; R[-alpha >= beta - ab0] = 1; R[-alpha < beta - ab0] = -1
get_grid(ab, ab0) ==
    [i \in DOMAIN ab |->
        IF RLt(RNeg(ab[i][1]), RSub(ab[i][2], ab0)) THEN -1
        ELSE IF RGe(RNeg(ab[i][1]), RSub(ab[i][2], ab0)) THEN 1
        ELSE 0]

\* density @ R
DotR(density, R) == SumSeq([i \in DOMAIN density |-> RMul(density[i], I(R[i]))])

\* R[H > ab[:,1]] = 1
SwitchOn(R, H, ab) == [i \in DOMAIN R |-> IF RGt(H, ab[i][2]) THEN 1 ELSE R[i]]

\* R[H >= ab[:,1]] = 1 (the comparison path() uses)
SwitchOnEq(R, H, ab) == [i \in DOMAIN R |-> IF RGe(H, ab[i][2]) THEN 1 ELSE R[i]]

\* R[H < ab[:,0]] = -1
SwitchOff(R, H, ab) == [i \in DOMAIN R |-> IF RLt(H, ab[i][1]) THEN -1 ELSE R[i]]

\* the initial curve of _get_major: while H_init[-1] <= ab_max: append.  Rs lists
\* the states R took, the current one last.
RECURSIVE InitialRamp(_, _, _, _, _, _)
InitialRamp(H, M, Rs, dH, ab_max, o) ==
    IF RLe(Last(H), ab_max)
    THEN LET h == RAdd(Last(H), dH)
             r == SwitchOn(Last(Rs), h, o.ab)
         IN  InitialRamp(Append(H, h), Append(M, DotR(o.density, r)), Append(Rs, r),
                         dH, ab_max, o)
    ELSE [H |-> H, M |-> M, Rs |-> Rs]

\* for i in range(n): H.append(H0 + step*i); switch; M.append(density @ R)
RECURSIVE Sweep(_, _, _, _, _, _, _, _)
Sweep(i, n, H0, step, H, M, Rs, o) ==
    IF i >= n THEN [H |-> H, M |-> M, Rs |-> Rs]
    ELSE LET h == RAdd(H0, RMul(step, I(i)))
             r == IF Sgn(step) > 0 THEN SwitchOn(Last(Rs), h, o.ab)
                  ELSE SwitchOff(Last(Rs), h, o.ab)
         IN  Sweep(i + 1, n, H0, step, Append(H, h), Append(M, DotR(o.density, r)),
                   Append(Rs, r), o)

\* numpy.sign of one sample: -1, 0, 1, and 2 for nan (which differs from itself)
SignOf(x) == IF IsNaN(x) THEN 2 ELSE Sgn(x)

\* np.diff(np.sign(M)).nonzero()[0]: the 0-based places where the sign changes
SignChanges(M) ==
    {j \in 0..(Len(M) - 2) :
        SignOf(M[j + 1]) = 2 \/ SignOf(M[j + 2]) = 2 \/ SignOf(M[j + 1]) # SignOf(M[j + 2])}

\* list.index(0.): the 0-based place of the first zero, -1 when list.index raises
IndexOfZero(H) ==
    IF \E j \in 1..Len(H) : H[j] = Zero
    THEN (CHOOSE j \in 1..Len(H) : H[j] = Zero /\ \A l \in 1..(j - 1) : H[l] # Zero) - 1
    ELSE -1

\* sum(H[j:j+2]) / 2 for a 0-based j (a slice past the end is shorter)
PairMean(H, j) ==
    RDiv(SumSeq(SubSeq(H, j + 1, IF j + 2 <= Len(H) THEN j + 2 ELSE Len(H))), I(2))

\* lines 108-114 of _get_major: the critical points of the two branches, or the
\* exception: list.index raises ValueError, int() of an array that does not
\* hold exactly one element raises TypeError
Criticals(H_upper, M_upper, H_lower, M_lower) ==
    LET ru == IndexOfZero(H_upper)
        rl == IndexOfZero(H_lower)
        cu == SignChanges(M_lower)
        cl == SignChanges(M_upper)
    IN  IF ru < 0 \/ rl < 0 THEN [status |-> "ValueError"]
        ELSE IF ru >= Len(M_upper) \/ rl >= Len(M_lower) THEN [status |-> "IndexError"]
        ELSE IF Cardinality(cu) # 1 \/ Cardinality(cl) # 1 THEN [status |-> "TypeError"]
        ELSE LET cuID == CHOOSE j \in cu : TRUE
                 clID == CHOOSE j \in cl : TRUE
             IN  [status |-> "ok",
                  remanence |-> <<M_upper[ru + 1], M_lower[rl + 1]>>,
                  coercivity |-> <<PairMean(H_lower, cuID), PairMean(H_upper, clID)>>]

Seed == [n |-> 1, d |-> 1, e |-> -6, u |-> 0]

\* lines 107-114 of _get_major (and 160-170 of get_major): the three curves, each
\* a record of its H and M lists, made into the fields of the object.  H_major
\* and M_major are assigned before the critical points are looked for, and stay
\* assigned when that raises.  nInit, nUpper, nLower and mUpper are not fields of
\* the program's object: the lengths of H_init, H_upper, H_lower and M_upper.
MajorLoop(o, ini, up, lo) ==
    With([o EXCEPT !.H_major = ini.H \o up.H \o lo.H,
                   !.M_major = ini.M \o up.M \o lo.M,
                   !.nInit = Len(ini.H), !.nUpper = Len(up.H),
                   !.nLower = Len(lo.H), !.mUpper = Len(up.M)], LAMBDA listed :
    With(Criticals(up.H, up.M, lo.H, lo.M), LAMBDA cr :
        IF cr.status # "ok" THEN [status |-> cr.status, obj |-> listed]
        ELSE [status |-> "ok",
              obj |-> [listed EXCEPT !.remanence = cr.remanence,
                                     !.coercivity = cr.coercivity]]))

\* Preisach._get_major on an object whose grid and density are set
P_get_major(o) ==
    With(InitialRamp(<<Zero>>, <<Seed>>, <<get_grid(o.ab, Seed)>>, o.dH, o.ab_max, o),
         LAMBDA ini :
    With(Ceil(RDiv(RMul(I(2), Last(ini.H)), o.dH)) + 1, LAMBDA n_curve :
    With(Sweep(0, n_curve, Last(ini.H), RNeg(o.dH), <<>>, <<>>, ini.Rs, o), LAMBDA up :
    With(Sweep(0, n_curve, Last(up.H), o.dH, <<>>, <<>>, up.Rs, o), LAMBDA lo :
        MajorLoop([o EXCEPT !.R_major = lo.Rs], ini, up, lo)))))

\* what a constructor that entered major-loop construction leaves: the
\* exception it raised or "ok", the object, the hysteron states the major
\* loop went through, and the object as far as it was made (which the caller
\* does not get when the constructor raised)
Built(mj) ==
    [status |-> mj.status, major |-> TRUE,
     obj |-> IF mj.status = "ok" THEN mj.obj ELSE NoModel, R |-> mj.obj.R_major,
     made |-> mj.obj]

\* what a constructor that raised before major-loop construction leaves
Failed(e) == [status |-> e, major |-> FALSE, obj |-> NoModel, R |-> <<>>, made |-> NoModel]

\* density[ab[:,0] >= ab[:,1]] = 0; density *= Ms / density.sum()
Density(Ms, pX, ab) ==
    With(MaskLower(pX, ab), LAMBDA d : Scale(RDiv(Ms, SumSeq(d)), d))

\* Preisach.__init__ of rshyst/preisach.py.  major tells whether _get_major was
\* entered.  A grid of no intervals (n_ab = 0) is 0/0 = nan in its one point, and
\* so is every weight computed from it; range(n_ab + 1) is empty below that.
PreisachInit(Ms, ab_max, ab_res, dH, distribution, profile, units) ==
    IF BaseInit(dH, units) # "ok" THEN Failed(BaseInit(dH, units))
    ELSE IF ab_res = Zero THEN Failed("ZeroDivisionError")
    ELSE IF distribution \notin DistributionKeys THEN Failed("AttributeError")
    ELSE
    With(Round(I(Ceil(RDiv(RMul(I(2), ab_max), ab_res)))), LAMBDA n_ab :
    With(UnitGrid(n_ab), LAMBDA ab :
    With(IF n_ab = 0 /\ distribution # "UNIFORM" THEN <<NaN>>
         ELSE Distribution(distribution, n_ab, profile), LAMBDA pX :
        IF n_ab < 0 THEN Failed("ValueError")
        ELSE IF Len(pX) # Len(ab) THEN Failed("IndexError")
        ELSE Built(P_get_major(
                 [NoModel EXCEPT !.cls = "Preisach", !.dH = dH,
                     !.units = UNITS(Upper(units)), !.Ms = Ms,
                     !.ab_max = ab_max, !.density = Density(Ms, pX, ab),
                     !.ab = [i \in DOMAIN ab |->
                               <<RMul(ab[i][1], ab_max), RMul(ab[i][2], ab_max)>>]]))
    )))

\* a _convert_params that leaves the density as it was
KeepDensity(o, cf) ==
    [o EXCEPT !.Ms = RMul(o.Ms, cf), !.ab_max = RMul(o.ab_max, cf),
              !.ab = [i \in DOMAIN o.ab |-> <<RMul(o.ab[i][1], cf), RMul(o.ab[i][2], cf)>>]]

\* HysteresisModel._convert_params as Preisach overrides it
P_convert_params(o, cf) ==
    [o EXCEPT !.Ms = RMul(o.Ms, cf), !.ab_max = RMul(o.ab_max, cf),
              !.ab = [i \in DOMAIN o.ab |-> <<RMul(o.ab[i][1], cf), RMul(o.ab[i][2], cf)>>],
              !.density = Scale(cf, o.density)]

\* HysteresisModel.convert_units: the exception raised, and the object afterwards
convert_units(o, units) ==
    IF Upper(units) \notin UnitKeys THEN [status |-> "ValueError", obj |-> o]
    ELSE With(RDiv(UNITS(Upper(units)), o.units), LAMBDA cf :
             [status |-> "ok",
              obj |-> P_convert_params(
                          [o EXCEPT !.units = RMul(o.units, cf), !.dH = RMul(o.dH, cf),
                                    !.H_major = Scale(cf, o.H_major),
                                    !.M_major = Scale(cf, o.M_major),
                                    !.remanence = Scale(cf, o.remanence),
                                    !.coercivity = Scale(cf, o.coercivity)], cf)])

\* the samples of one segment of Preisach.path: for n in range(Np)
RECURSIVE PathSamples(_, _, _, _, _, _, _, _)
PathSamples(i, Np, H0, dH, H, M, Rs, o) ==
    IF i >= Np THEN [H |-> H, M |-> M, Rs |-> Rs]
    ELSE LET h == RAdd(H0, RMul(I(i), dH))
             r == IF Sgn(dH) > 0 THEN SwitchOnEq(Last(Rs), h, o.ab)
                  ELSE SwitchOff(Last(Rs), h, o.ab)
         IN  PathSamples(i + 1, Np, H0, dH, Append(H, h), Append(M, DotR(o.density, r)),
                         Append(Rs, r), o)

\* the loop of Preisach.path over the segments; int(nan) raises ValueError.
\* cuts and Rs are not outputs of the program: the place in M of each segment's
\* first sample, and the states R took, from the one path() starts with.
RECURSIVE P_path_loop(_, _, _, _, _, _)
P_path_loop(H_path, H, M, cuts, Rs, o) ==
    IF H_path = <<>> THEN [status |-> "ok", H |-> H, M |-> M, cuts |-> cuts, R |-> Rs,
          obj |-> o]
    ELSE
    With(Head(H_path), LAMBDA Hp :
    With(RSub(Hp[2], Hp[1]), LAMBDA deltaH :
    With(RMul(o.dH, I(Sgn(deltaH))), LAMBDA dH :
        IF IsNaN(RDiv(deltaH, dH))
        THEN [status |-> "ValueError", H |-> <<>>, M |-> <<>>, cuts |-> <<>>, R |-> Rs,
          obj |-> o]
        ELSE With(PathSamples(0, Ceil(RAbs(RDiv(deltaH, dH))) + 1, Hp[1], dH, H, M, Rs, o),
                  LAMBDA seg :
                 P_path_loop(Tail(H_path), seg.H, seg.M, Append(cuts, Len(M) + 1),
                             seg.Rs, o)))))

\* a path() that keeps the magnetizations it computed as the object's M_major
PathStoring(o, H_path, M0) ==
    With(P_path_loop(H_path, <<>>, <<>>, <<>>,
                     <<get_grid(o.ab, RMul(o.ab_max, RDiv(M0, o.Ms)))>>, o), LAMBDA r :
        [r EXCEPT !.obj = [o EXCEPT !.M_major = r.M]])

\* Preisach.path: self is read (dH, _ab, _ab_max, _Ms, _density) and not written
P_path(o, H_path, M0) ==
    P_path_loop(H_path, <<>>, <<>>, <<>>,
                <<get_grid(o.ab, RMul(o.ab_max, RDiv(M0, o.Ms)))>>, o)

\* int(.2 * n) and int(.6 * n)
Cut02(n) == (2 * n) \div 10

Cut06(n) == (6 * n) \div 10

CurveKeys == {"initial", "upper", "lower"}

\* str.lower() on the curve names handed to point()
Lower(name) ==
    CASE name = "Upper" -> "upper"
      [] name = "INITIAL" -> "initial"
      [] OTHER -> name

\* the (0-based, end-exclusive) index pair point() selects for a curve
CurveIndices(curve, n) ==
    CASE curve = "initial" -> <<0, Cut02(n)>>
      [] curve = "upper" -> <<Cut02(n), Cut06(n)>>
      [] curve = "lower" -> <<Cut06(n), n>>

\* argsort(H_dists)[:2]: the places of the two smallest distances, a tie to the
\* earlier place
Nearest(dists, taken) ==
    CHOOSE j \in (DOMAIN dists) \ taken :
        \A l \in (DOMAIN dists) \ taken :
            RLt(dists[j], dists[l]) \/ (~RLt(dists[l], dists[j]) /\ j <= l)

\* the places of the first two samples, whatever their distances
FirstTwo(dists) == {j \in DOMAIN dists : j <= 2}

\* the places (up to two) of the samples nearest to the point
TwoNearest(dists) ==
    IF Len(dists) = 0 THEN {}
    ELSE IF Len(dists) = 1 THEN {Nearest(dists, {})}
    ELSE {Nearest(dists, {}), Nearest(dists, {Nearest(dists, {})})}

\* HysteresisModel.point
point(o, H_point, curve) ==
    IF Lower(curve) \notin CurveKeys THEN [status |-> "ValueError", val |-> Zero, obj |-> o]
    ELSE
    With(CurveIndices(Lower(curve), Len(o.H_major)), LAMBDA ix :
    With(SubSeq(o.M_major, ix[1] + 1, ix[2]), LAMBDA M :
    With([j \in DOMAIN SubSeq(o.H_major, ix[1] + 1, ix[2]) |->
            RAbs(RSub(o.H_major[ix[1] + j], H_point))], LAMBDA dists :
    With(TwoNearest(dists), LAMBDA n2 :
        IF \E j \in n2 : j > Len(M) THEN [status |-> "IndexError", val |-> Zero, obj |-> o]
        ELSE [status |-> "ok",
              val |-> RDiv(SumSeq([j \in DOMAIN dists |->
                                     IF j \in n2 THEN RMul(M[j], dists[j]) ELSE Zero]),
                           o.dH),
              obj |-> o]))))

(***************************************************************************)
(* Fixed-step ODE integrators (rshyst/integrators.py)                      *)
(***************************************************************************)
\* the size taken without the absolute values: int(round(ceil(b1 - b0) / dt)) + 1
SignedSize(b0, b1, dt) ==
    IF dt = Zero THEN -1
    ELSE Round(RDiv(I(Ceil(RSub(b1, b0))), dt)) + 1

\* _get_size: int(round(ceil(|b1 - b0|) / |dt|)) + 1; -1 when round() is handed
\* nan (dt = 0) and raises ValueError
get_size(b0, b1, dt) ==
    IF dt = Zero THEN -1
    ELSE Round(RDiv(I(Ceil(RAbs(RSub(b1, b0)))), RAbs(dt))) + 1

(***************************************************************************)
(* Jiles-Atherton model (rshyst/jilesatherton.py on the base of model.py). *)
(* The anhysteretic magnetization Ms*(coth(He/a) - a/He) is transcendental *)
(* and has no exact evaluation here.  Its stand-in is its saturated limit  *)
(* Ms*sign(He), and the magnetization moves toward it, in the direction of *)
(* the sweep only, at the constant rate Ms/k.  The effective field and its *)
(* zero case are those of the program.  What is checked on this model are  *)
(* the counts, the order and the chaining of samples, which do not rest on *)
(* the magnitudes the stand-in yields.                                     *)
(***************************************************************************)
Nudge == [n |-> 1, d |-> 1, e |-> -9, u |-> 0]

\* He = H + alpha*M with nothing done about He = 0
Unnudged(o, H, M, delta) == RAdd(H, RMul(o.alpha, M))

\* He = H + alpha*M; jilesatherton.py goes on with: if He == 0: He += 1e-9*delta.
\* jiles_atherton.py has no such line, and a/He and coth(He/a) at He = 0 are nan.
EffectiveField(o, H, M, delta) ==
    With(RAdd(H, RMul(o.alpha, M)), LAMBDA He :
        IF He # Zero THEN He
        ELSE IF o.cls = "RsJilesAtherton" THEN NaN
        ELSE RAdd(He, RMul(Nudge, I(delta))))

\* JilesAtherton.diffeq (and _diffeq of jiles_atherton.py), with the stand-in
diffeq(o, H, M, delta) ==
    With(EffectiveField(o, H, M, delta), LAMBDA He :
        IF IsNaN(He) \/ IsNaN(M) THEN NaN
        ELSE IF delta * Sgn(RSub(RMul(o.Ms, I(Sgn(He))), M)) > 0 THEN RDiv(o.Ms, o.k)
        ELSE Zero)

\* the derivative functions handed to the integrators when they are called on
\* their own: f(t, x) = 0, 1, t, and 1 below x = 3/4 and 0 from there on
FunctionKeys == {"zero", "one", "ramp", "step"}

Fun(fn, t, x) ==
    CASE fn = "zero" -> Zero
      [] fn = "one" -> One
      [] fn = "ramp" -> t
      [] fn = "step" -> IF RLt(x, Q(3, 4)) THEN One ELSE Zero

\* diffEq(t, x, *diffArgs): the method diffeq of the model o with its sweep sign,
\* or the function o names
diffEq(o, t, x, delta) ==
    IF o.cls = "function" THEN Fun(o.fn, t, x) ELSE diffeq(o, t, x, delta)

\* EULER: X[i+1] = X[i] + diffEq(t + dt, X[i]) * dt, t = bounds[0] + i*dt
RECURSIVE EulerSteps(_, _, _, _, _, _, _)
EulerSteps(i, N, X, b0, dt, delta, o) ==
    IF i >= N - 1 THEN X
    ELSE EulerSteps(i + 1, N,
                    Append(X, RAdd(Last(X),
                                   RMul(diffEq(o, RAdd(RAdd(b0, RMul(I(i), dt)), dt),
                                               Last(X), delta), dt))),
                    b0, dt, delta, o)

\* the parameters a (= c) and b of RK4
RK4a == <<Half, Half, One>>

RK4b == <<Q(1, 6), Q(1, 3), Q(1, 3), Q(1, 6)>>

\* the loop for j in range(3) of RK4, ks holding the slopes 0..j:
\* ks[j+1] = diffEq(t + c[j]*dt, X[i] + (ks[:j+1] @ a[:j+1])*dt)
RECURSIVE RK4Slopes(_, _, _, _, _, _)
RK4Slopes(ks, o, t, x, dt, delta) ==
    IF Len(ks) = 4 THEN ks
    ELSE RK4Slopes(Append(ks, diffEq(o, RAdd(t, RMul(RK4a[Len(ks)], dt)),
                                     RAdd(x, RMul(Dot(ks, SubSeq(RK4a, 1, Len(ks))), dt)),
                                     delta)),
                   o, t, x, dt, delta)

\* RK4: ks[0] = diffEq(t, X[i]); X[i+1] = X[i] + b @ ks * dt
RECURSIVE RK4Steps(_, _, _, _, _, _, _)
RK4Steps(i, N, X, b0, dt, delta, o) ==
    IF i >= N - 1 THEN X
    ELSE With(RAdd(b0, RMul(I(i), dt)), LAMBDA t :
             RK4Steps(i + 1, N,
                      Append(X, RAdd(Last(X),
                                     RMul(Dot(RK4b, RK4Slopes(<<diffEq(o, t, Last(X), delta)>>,
                                                              o, t, Last(X), dt, delta)),
                                          dt))),
                      b0, dt, delta, o))

\* the parameters a, b and c of RK45, each fraction as <<numerator, denominator>>
RK45a ==
    <<<<<<1, 5>>>>,
      <<<<3, 40>>, <<9, 40>>>>,
      <<<<44, 45>>, <<-56, 15>>, <<32, 9>>>>,
      <<<<19372, 6561>>, <<-25360, 2187>>, <<64448, 6571>>, <<-212, 729>>>>,
      <<<<9017, 3168>>, <<-355, 33>>, <<46732, 5247>>, <<49, 176>>, <<-5103, 18656>>>>,
      <<<<35, 384>>, <<0, 1>>, <<500, 1113>>, <<125, 192>>, <<-2187, 6784>>, <<11, 84>>>>>>

RK45b ==
    <<<<35, 384>>, <<0, 1>>, <<500, 1113>>, <<125, 192>>, <<-2187, 6784>>, <<11, 84>>,
      <<0, 1>>>>

RK45c == <<<<1, 5>>, <<3, 10>>, <<4, 5>>, <<8, 9>>, <<1, 1>>, <<1, 1>>>>

\* a list of fractions as numbers
Fractions(row) == [j \in DOMAIN row |-> Q(row[j][1], row[j][2])]

\* the loop for j in range(6) of RK45, ks holding the slopes 0..j:
\* ks[j+1] = diffEq(t + c[j]*dt, X[i] + (ks[:j+1] @ a[j])*dt)
RECURSIVE RK45Slopes(_, _, _, _, _, _)
RK45Slopes(ks, o, t, x, dt, delta) ==
    IF Len(ks) = 7 THEN ks
    ELSE RK45Slopes(Append(ks, diffEq(o, RAdd(t, RMul(Fractions(RK45c)[Len(ks)], dt)),
                                      RAdd(x, RMul(Dot(ks, Fractions(RK45a[Len(ks)])), dt)),
                                      delta)),
                    o, t, x, dt, delta)

\* RK45: ks[0] = diffEq(t, X[i]); X[i+1] = X[i] + b @ ks * dt
RECURSIVE RK45Steps(_, _, _, _, _, _, _)
RK45Steps(i, N, X, b0, dt, delta, o) ==
    IF i >= N - 1 THEN X
    ELSE With(RAdd(b0, RMul(I(i), dt)), LAMBDA t :
             RK45Steps(i + 1, N,
                       Append(X, RAdd(Last(X),
                                      RMul(Dot(Fractions(RK45b),
                                               RK45Slopes(<<diffEq(o, t, Last(X), delta)>>,
                                                          o, t, Last(X), dt, delta)),
                                           dt))),
                       b0, dt, delta, o))

\* the integrators of integrators.py the models are offered; the names handed
\* to getattr(integrators, name) are these and names the module does not define
IntegratorKeys == {"EULER", "RK4"}

\* the number of samples an integrator returns: _get_size of rshyst, and
\* N = int(round(ceil(bounds[1] - bounds[0]) / dt)) + 1 in EULER and RK4 of
\* rsradia/hysteresis/integrators.py
Size(o, b0, b1, dt) ==
    IF o.cls = "RsJilesAtherton" THEN Round(RDiv(I(Ceil(RSub(b1, b0))), dt)) + 1
    ELSE get_size(b0, b1, dt)

\* self.integrator(X0, [b0, b1], dt, self.diffeq, delta): the list of states
Integrate(o, X0, b0, b1, dt, delta) ==
    IF o.integrator = "EULER" THEN EulerSteps(0, Size(o, b0, b1, dt), <<X0>>, b0, dt, delta, o)
    ELSE IF o.integrator = "RK45"
    THEN RK45Steps(0, Size(o, b0, b1, dt), <<X0>>, b0, dt, delta, o)
    ELSE RK4Steps(0, Size(o, b0, b1, dt), <<X0>>, b0, dt, delta, o)

\* EULER, RK4 or RK45 called with a function of FunctionKeys: inf and nan
\* (dt = 0) make round() raise OverflowError and ValueError
Integrator(name, X0, b0, b1, dt, fn) ==
    IF dt = Zero
    THEN [status |-> IF b0 = b1 THEN "ValueError" ELSE "OverflowError", X |-> <<>>]
    ELSE [status |-> "ok",
          X |-> Integrate([cls |-> "function", fn |-> fn, integrator |-> name],
                          X0, b0, b1, dt, 0)]

MaxRamp == 6

\* delta_M > sat_tol for delta_M = abs((M_new - M_old) / M_old), M_old # 0, decided
\* without forming the quotient: |M_new - M_old| > sat_tol * |M_old|
RelChangeAbove(M_new, M_old, sat_tol) ==
    RGt(RAbs(RSub(M_new, M_old)), RMul(sat_tol, RAbs(M_old)))

\* the saturation loop of get_major: while delta_M > sat_tol, from delta_M = 1
\* and then from the last two magnetizations.  iter counts the passes; past
\* MaxRamp the loop is cut and reported as not converged.
RECURSIVE RampLoop(_, _, _, _, _)
RampLoop(H, M, sat_tol, iter, o) ==
    IF iter > 0 /\ M[Len(M) - 1] = Zero
    THEN [status |-> "ZeroDivisionError", H |-> H, M |-> M]
    ELSE IF ~(IF iter = 0 THEN RGt(One, sat_tol)
              ELSE RelChangeAbove(Last(M), M[Len(M) - 1], sat_tol))
    THEN [status |-> "ok", H |-> H, M |-> M]
    ELSE IF iter >= MaxRamp THEN [status |-> "NoConvergence", H |-> H, M |-> M]
    ELSE IF o.dH = Zero THEN [status |-> "ValueError", H |-> H, M |-> M]
    ELSE RampLoop(Append(H, RAdd(Last(H), o.dH)),
                  Append(M, Last(Integrate(o, Last(M), Last(H), RAdd(Last(H), o.dH),
                                           o.dH, 1))),
                  sat_tol, iter + 1, o)

\* a field list stepping against the sign of step
FieldListBack(H0, step, count) == [j \in 1..count |-> RSub(H0, RMul(step, I(j - 1)))]

\* [H0 + step*n for n in range(count)]
FieldList(H0, step, count) == [j \in 1..count |-> RAdd(H0, RMul(step, I(j - 1)))]

\* one branch of the major loop: its field list H, and the integrator run
\* from X0 over [H[0], H[-1]]
Branch(o, X0, H, dH, delta) ==
    [H |-> H, M |-> Integrate(o, X0, H[1], Last(H), dH, delta)]

\* JilesAtherton.get_major.  With anisotropy on, diffeq calls self.get_aniso,
\* which the class does not define (its method is _get_aniso): AttributeError.
JA_get_major(o, sat_tol) ==
    IF o.wa # Zero /\ RGt(One, sat_tol) THEN [status |-> "AttributeError", obj |-> o]
    ELSE
    With(RampLoop(<<Zero>>, <<Seed>>, sat_tol, 0, o), LAMBDA ini :
        IF ini.status # "ok" THEN [status |-> ini.status, obj |-> o]
        ELSE IF o.dH = Zero THEN [status |-> "ValueError", obj |-> o]
        ELSE
        With(Branch(o, Last(ini.M), FieldList(Last(ini.H), RNeg(o.dH), 2 * Len(ini.H) + 1),
                    RNeg(o.dH), -1), LAMBDA up :
            MajorLoop(o, ini, up,
                      Branch(o, Last(up.M), FieldList(Last(up.H), o.dH, 2 * Len(ini.H) + 1),
                             o.dH, 1))))

\* numpy's sin, cos and arccos at the arguments that come up for the easy axis
\* along z (theta = phi = 0): sin(0) = 0, cos(0) = 1, arccos(1) = 0 and
\* arccos(0) = 1.5707963267948966
HalfPI == [n |-> 15707963, d |-> 1, e |-> -7, u |-> 0]

Sin(x) == CASE x = Zero -> Zero

Cos(x) == CASE x = Zero -> One

ArcCos(x) == CASE x = Zero -> HalfPI [] x = One -> Zero

\* easy_unit and self.psi = np.array([np.arccos(easy_unit @ u) for u in np.eye(3)])
EasyAngles(theta, phi) ==
    LET easy_unit == <<RMul(Sin(theta), Cos(phi)), RMul(Sin(theta), Sin(phi)), Cos(theta)>>
    IN  [i \in 1..3 |-> ArcCos(easy_unit[i])]

\* JilesAtherton.__init__; model.py's base __init__ stores dH and checks nothing.
\* The else branch sets psi = 0 with wa, Ka, theta and phi, and the lines after
\* the branch compute psi again from theta and phi in either case.
JAInit(alpha, a, Ms, k, c, dH, wa, Ka, theta, phi, sat_tol, integrator) ==
    IF integrator \notin IntegratorKeys THEN Failed("AttributeError")
    ELSE Built(JA_get_major(
             [NoModel EXCEPT !.cls = "JilesAtherton", !.dH = dH, !.alpha = alpha,
                 !.a = a, !.Ms = Ms, !.k = k, !.c = c,
                 !.wa = IF wa # Zero /\ Ka # Zero THEN wa ELSE Zero,
                 !.Ka = IF wa # Zero /\ Ka # Zero THEN RDiv(Ka, MU0) ELSE Zero,
                 !.theta = IF wa # Zero /\ Ka # Zero THEN theta ELSE Zero,
                 !.phi = IF wa # Zero /\ Ka # Zero THEN phi ELSE Zero,
                 !.psi = EasyAngles(IF wa # Zero /\ Ka # Zero THEN theta ELSE Zero,
                                    IF wa # Zero /\ Ka # Zero THEN phi ELSE Zero),
                 !.integrator = integrator], sat_tol))

\* the loop of JilesAtherton.path over the segments.  cuts is not an output of
\* the program: it records, per segment, the place in M of its first sample.
RECURSIVE JA_path_loop(_, _, _, _, _, _)
JA_path_loop(H_path, H, M, cuts, M0, o) ==
    IF H_path = <<>> THEN [status |-> "ok", H |-> H, M |-> M, cuts |-> cuts, R |-> <<>>,
          obj |-> o]
    ELSE
    With(Head(H_path), LAMBDA Hp :
    With(IF RGt(Hp[2], Hp[1]) THEN o.dH ELSE RNeg(o.dH), LAMBDA dH :
    With(H \o FieldList(Hp[1], dH, Round(I(Ceil(RDiv(RSub(Hp[2], Hp[1]), dH)))) + 1),
         LAMBDA H1 :
        IF H1 = <<>>
        THEN [status |-> "IndexError", H |-> <<>>, M |-> <<>>, cuts |-> <<>>, R |-> <<>>,
          obj |-> o]
        ELSE With(M \o Integrate(o, M0, Hp[1], Last(H1), dH, Sgn(dH)), LAMBDA M1 :
                 JA_path_loop(Tail(H_path), H1, M1, Append(cuts, Len(M) + 1), Last(M1),
                              o)))))

\* JilesAtherton.path
JA_path(o, H_path, M0) == JA_path_loop(H_path, <<>>, <<>>, <<>>, M0, o)

(***************************************************************************)
(* The classes of rsradia/hysteresis (preisach.py, jiles_atherton.py)      *)
(***************************************************************************)
\* R of _get_major: 1 where -alpha >= beta, -1 where -alpha < beta, then 0 where
\* alpha >= beta
RsInitialGrid(ab) ==
    [i \in DOMAIN ab |->
        IF RGe(ab[i][1], ab[i][2]) THEN 0
        ELSE IF RLt(RNeg(ab[i][1]), ab[i][2]) THEN -1
        ELSE IF RGe(RNeg(ab[i][1]), ab[i][2]) THEN 1
        ELSE 0]

\* while (H[-1] < self._ab_max): append
RECURSIVE RsInitialRamp(_, _, _, _)
RsInitialRamp(H, M, Rs, o) ==
    IF RLt(Last(H), o.ab_max)
    THEN LET h == RAdd(Last(H), o.dH)
             r == SwitchOn(Last(Rs), h, o.ab)
         IN  RsInitialRamp(Append(H, h), Append(M, DotR(o.density, r)), Append(Rs, r), o)
    ELSE [H |-> H, M |-> M, Rs |-> Rs]

\* max(H) of a non-empty list
Max(H) == CHOOSE h \in {H[j] : j \in DOMAIN H} : \A j \in DOMAIN H : RLe(H[j], h)

\* min(H) of a non-empty list
Min(H) == CHOOSE h \in {H[j] : j \in DOMAIN H} : \A j \in DOMAIN H : RLe(h, H[j])

\* int(round(ceil(2*max(H)/self._dH)))
n_curve(H, dH) == Round(I(Ceil(RDiv(RMul(I(2), Max(H)), dH))))

\* preisach.py's Preisach._get_major: H_major and B_major = Ms * MU0 * M
RsP_get_major(o) ==
    With(RsInitialRamp(<<Zero>>, <<Zero>>, <<RsInitialGrid(o.ab)>>, o), LAMBDA ini :
    With(Sweep(0, n_curve(ini.H, o.dH), RSub(Last(ini.H), o.dH), RNeg(o.dH),
               ini.H, ini.M, ini.Rs, o), LAMBDA up :
    With(Sweep(0, n_curve(ini.H, o.dH), RAdd(Last(up.H), o.dH), o.dH, up.H, up.M, up.Rs, o),
         LAMBDA lo :
        [o EXCEPT !.H_major = lo.H, !.B_major = Scale(RMul(o.Ms, MU0), lo.M),
                  !.R_major = lo.Rs,
                  !.nInit = Len(ini.H), !.nUpper = Len(up.H) - Len(ini.H),
                  !.nLower = Len(lo.H) - Len(up.H)])))

\* the 0-based places where X is zero
ZerosOf(X) == {j \in 0..(Len(X) - 1) : X[j + 1] = Zero}

\* one critical value of _get_criticals: Y where X is zero if 0 is in X, else the
\* mean of Y over the pair where X changes sign; float() and int() raise
\* TypeError on an array that does not hold exactly one element
RsCritical(X, Y) ==
    IF ZerosOf(X) # {}
    THEN IF Cardinality(ZerosOf(X)) # 1 THEN [status |-> "TypeError", val |-> Zero]
         ELSE [status |-> "ok", val |-> Y[(CHOOSE j \in ZerosOf(X) : TRUE) + 1]]
    ELSE IF Cardinality(SignChanges(X)) # 1 THEN [status |-> "TypeError", val |-> Zero]
    ELSE [status |-> "ok", val |-> PairMean(Y, CHOOSE j \in SignChanges(X) : TRUE)]

\* the four critical values, from the upper and the lower branch
RsCriticals(o, H_upper, B_upper, H_lower, B_lower) ==
    With(<<RsCritical(H_upper, B_upper), RsCritical(H_lower, B_lower),
           RsCritical(B_upper, H_upper), RsCritical(B_lower, H_lower)>>, LAMBDA cr :
        IF \E j \in 1..4 : cr[j].status # "ok" THEN [status |-> "TypeError", obj |-> o]
        ELSE [status |-> "ok",
              obj |-> [o EXCEPT !.remanence = <<cr[2].val, cr[1].val>>,
                                !.coercivity = <<cr[3].val, cr[4].val>>]])

\* preisach.py's Preisach._get_criticals
RsP_get_criticals(o) ==
    With(Len(o.H_major), LAMBDA n :
        RsCriticals(o, SubSeq(o.H_major, Cut02(n) + 1, Cut06(n)),
                    SubSeq(o.B_major, Cut02(n) + 1, Cut06(n)),
                    SubSeq(o.H_major, Cut06(n) + 1, n),
                    SubSeq(o.B_major, Cut06(n) + 1, n)))

DISTRIBUTIONS == {"UNIFORM", "GAUSSIAN", "GMIXTURE"}

\* preisach.py's Preisach.__init__.  distribution is a record: type "str" with
\* the name, dist_params as params ("None", the default, cannot be unpacked;
\* UNIFORM takes no parameter, so only "()" suits it) and the profile the
\* parameters select; type "ndarray" with the array in pX; any other type.
RsPreisachInit(Ms, ab_max, ab_res, dH, distribution) ==
    IF RLe(Ms, Zero) \/ RLe(ab_max, Zero) \/ RLe(ab_res, Zero) \/ RLe(dH, Zero)
    THEN Failed("ValueError")
    ELSE
    With(Round(I(Ceil(RDiv(RMul(I(2), ab_max), ab_res)))), LAMBDA n_grid :
    With(UnitGrid(n_grid), LAMBDA grid :
    With(IF distribution.type # "str" THEN distribution.pX
         ELSE IF Upper(distribution.name) = "UNIFORM" THEN UNIFORM(Len(grid))
         ELSE GAUSSIAN(n_grid, distribution.profile), LAMBDA pX :
        IF distribution.type = "str" /\ Upper(distribution.name) \notin DISTRIBUTIONS
        THEN Failed("ValueError")
        ELSE IF distribution.type = "str"
                  /\ (distribution.params = "None"
                        \/ (Upper(distribution.name) = "UNIFORM"
                              /\ distribution.params # "()"))
        THEN Failed("RuntimeError")
        ELSE IF distribution.type = "ndarray"
                  /\ (pX = <<>> \/ \E i \in DOMAIN pX : RLt(pX[i], Zero))
        THEN Failed("ValueError")
        ELSE IF distribution.type = "ndarray" /\ Len(pX) # Len(grid)
        THEN Failed("ValueError")
        ELSE IF distribution.type \notin {"str", "ndarray"} THEN Failed("ValueError")
        ELSE IF Len(pX) # Len(grid) THEN Failed("IndexError")
        ELSE Built(RsP_get_criticals(RsP_get_major(
                 [NoModel EXCEPT !.cls = "RsPreisach", !.dH = dH, !.Ms = Ms,
                     !.ab_max = ab_max, !.density = Density(One, pX, grid),
                     !.ab = [i \in DOMAIN grid |->
                               <<RMul(grid[i][1], ab_max), RMul(grid[i][2], ab_max)>>]])))
    )))

\* the saturation tolerance written into _get_major
RsSatTol == [n |-> 25, d |-> 1, e |-> -6, u |-> 0]

\* delta_M > 2.5e-5 for delta_M = (abs(M_new - M_old) / dH) / M_old, decided
\* without forming the quotient (M_old = 0 gives inf or nan)
RsRelChangeAbove(M_new, M_old, dH) ==
    IF IsNaN(M_new) \/ IsNaN(M_old) THEN FALSE
    ELSE IF M_old = Zero THEN M_new # Zero
    ELSE IF Sgn(M_old) < 0 THEN FALSE
    ELSE RGt(RAbs(RSub(M_new, M_old)), RMul(RMul(RsSatTol, dH), M_old))

\* the saturation loop of jiles_atherton.py's _get_major (the magnetization kept
\* is the integrator's sample [1]), cut past MaxRamp passes
RECURSIVE RsRampLoop(_, _, _, _)
RsRampLoop(H, M, iter, o) ==
    IF iter > 0 /\ ~RsRelChangeAbove(Last(M), M[Len(M) - 1], o.dH)
    THEN [status |-> "ok", H |-> H, M |-> M]
    ELSE IF iter >= MaxRamp THEN [status |-> "NoConvergence", H |-> H, M |-> M]
    ELSE RsRampLoop(Append(H, RAdd(Last(H), o.dH)),
                    Append(M, Integrate(o, Last(M), Last(H), RAdd(Last(H), o.dH),
                                        o.dH, 1)[2]),
                    iter + 1, o)

\* jiles_atherton.py's JilesAtherton._get_major: H_major and B_major = MU0 * M
RsJA_get_major(o) ==
    With(RsRampLoop(<<Zero>>, <<Seed>>, 0, o), LAMBDA ini :
        IF ini.status # "ok" THEN [status |-> ini.status, obj |-> o]
        ELSE
        With(n_curve(ini.H, o.dH) + 1, LAMBDA n :
        With(ini.H \o FieldList(Max(ini.H), RNeg(o.dH), n), LAMBDA H1 :
        With(ini.M \o Integrate(o, Last(ini.M), Max(H1), RNeg(Max(H1)), RNeg(o.dH), -1),
             LAMBDA M1 :
        With(H1 \o FieldList(Min(H1), o.dH, n), LAMBDA H2 :
            [status |-> "ok",
             obj |-> [o EXCEPT !.H_major = H2,
                               !.B_major = Scale(MU0, M1 \o Integrate(o, Last(M1), Min(H2),
                                                                      Max(H2), o.dH, 1)),
                               !.nInit = Len(ini.H), !.nUpper = n, !.nLower = n]])))))

INTEGRATORS == {"EULER", "RK4", "RK45"}

\* 3.141592653589793 as a bound on psi: the angles offered are 0 and whole numbers
PI == [n |-> 31415926, d |-> 1, e |-> -7, u |-> 0]

\* int(.4 * n) and int(.8 * n)
Cut04(n) == (4 * n) \div 10

Cut08(n) == (8 * n) \div 10

\* rem_points of jiles_atherton.py's __init__: B_rem, IndexError past the end
RsRemanent(mj) ==
    IF mj.status # "ok" THEN mj
    ELSE IF Cut08(Len(mj.obj.H_major)) + 1 > Len(mj.obj.B_major)
    THEN [status |-> "IndexError", obj |-> mj.obj]
    ELSE [status |-> "ok",
          obj |-> [mj.obj EXCEPT
                     !.B_rem = <<mj.obj.B_major[Cut04(Len(mj.obj.H_major)) + 1],
                                 mj.obj.B_major[Cut08(Len(mj.obj.H_major)) + 1]>>]]

\* jiles_atherton.py's JilesAtherton.__init__ (RK45 is not among the names offered)
RsJAInit(alpha, a, Ms, k, c, wa, Ka, psi, dH, integrator) ==
    IF \E x \in {alpha, a, Ms, k, c, dH} : RLe(x, Zero) THEN Failed("ValueError")
    ELSE IF RLt(wa, Zero) \/ RGt(wa, One) \/ RLt(Ka, Zero) THEN Failed("ValueError")
    ELSE IF RLt(psi, Zero) \/ RGt(psi, PI) THEN Failed("ValueError")
    ELSE IF Upper(integrator) \notin INTEGRATORS THEN Failed("ValueError")
    ELSE Built(RsRemanent(RsJA_get_major(
             [NoModel EXCEPT !.cls = "RsJilesAtherton", !.dH = dH, !.alpha = alpha,
                 !.a = a, !.Ms = Ms, !.k = k, !.c = c,
                 !.wa = IF wa = Zero \/ Ka = Zero THEN Zero ELSE wa,
                 !.Ka = IF wa = Zero \/ Ka = Zero THEN Zero ELSE RDiv(Ka, MU0),
                 !.psi = IF wa = Zero \/ Ka = Zero THEN Zero ELSE psi,
                 !.integrator = Upper(integrator)])))

\* the loop of jiles_atherton.py's JilesAtherton.path: each segment's samples
\* are written into a slice of N_path[p] places, which the integrator's output
\* must fill (or hold one sample, which numpy repeats); ValueError otherwise
RECURSIVE RsJA_path_loop(_, _, _, _, _, _)
RsJA_path_loop(H_path, H, M, cuts, M0, o) ==
    IF H_path = <<>>
    THEN [status |-> "ok", H |-> H, M |-> Scale(MU0, M), cuts |-> cuts, R |-> <<>>,
          obj |-> o]
    ELSE
    With(Head(H_path), LAMBDA Hp :
    With(IF RGt(Hp[2], Hp[1]) THEN 1 ELSE -1, LAMBDA sgn :
    With(Round(RDiv(I(Ceil(RAbs(RSub(Hp[2], Hp[1])))), o.dH)) + 1, LAMBDA N :
    With(Integrate(o, M0, Hp[1], Hp[2], RMul(o.dH, I(sgn)), sgn), LAMBDA X :
        IF Len(X) \notin {1, N}
        THEN [status |-> "ValueError", H |-> <<>>, M |-> <<>>, cuts |-> <<>>, R |-> <<>>,
          obj |-> o]
        ELSE RsJA_path_loop(Tail(H_path),
                            H \o FieldList(Hp[1], RMul(o.dH, I(sgn)), N),
                            M \o (IF Len(X) = 1 THEN [j \in 1..N |-> X[1]] ELSE X),
                            Append(cuts, Len(M) + 1), Last(X), o)))))

\* jiles_atherton.py's JilesAtherton.path: returns H, MU0*M
RsJA_path(o, H_path, M0) == RsJA_path_loop(H_path, <<>>, <<>>, <<>>, M0, o)

(***************************************************************************)
(* The program as a state machine: one model object is constructed, then   *)
(* convert_units, path and point are called on it in any order.            *)
(*   mdl   the model object (NoModel before and after a failed constructor)*)
(*   born  the object as its constructor left it                           *)
(*   out   the last call: its name, arguments, the exception it raised or  *)
(*         "ok", and what it returned, until the caller lets go of it; R   *)
(*         lists the hysteron states the call went through                 *)
(***************************************************************************)
VARIABLES mdl, born, out

vars == <<mdl, born, out>>

NoOut ==
    [op |-> "none", status |-> "", major |-> FALSE, args |-> <<>>, H |-> <<>>,
     M |-> <<>>, cuts |-> <<>>, R |-> <<>>, val |-> Zero, He |-> Zero, prev |-> NoModel,
     made |-> NoModel]

\* the values offered to the constructors
MsInputs == {I(1), I(-1)}

GridInputs == {<<One, One>>, <<One, I(2)>>, <<Half, Half>>, <<Zero, One>>, <<One, Zero>>}

StepInputs == {One, Half, Zero}

FineStepInputs == {One, Half, Q(1, 4), Zero}

DistributionInputs ==
    {<<"GAUSSIAN", "ridge">>, <<"GAUSSIAN", "skew">>, <<"GMIXTURE", "twin">>,
     <<"UNIFORM", "flat">>, <<"LORENTZ", "flat">>}

UnitInputs == {"SI", "Tesla", "CGS"}

IntegratorInputs == {"EULER", "RK4", "rk4"}

TolInputs == {Q(1, 100), Half, I(-1)}

Init == mdl = NoModel /\ born = NoModel /\ out = NoOut

Ended(op, r, args) ==
    [NoOut EXCEPT !.op = op, !.status = r.status, !.major = r.major, !.args = args,
                  !.R = r.R, !.made = r.made]

\* rshyst: Preisach(Ms, ab_max, ab_res, dH, distribution=..., dist_params=..., units=...)
NewPreisach ==
    /\ out.op = "none"
    /\ \E Ms \in MsInputs, g \in GridInputs, dH \in StepInputs,
          d \in DistributionInputs, u \in UnitInputs :
          \E r \in {PreisachInit(Ms, g[1], g[2], dH, d[1], d[2], u)} :
              /\ mdl' = r.obj
              /\ born' = r.obj
              /\ out' = Ended("Preisach", r,
                              [Ms |-> Ms, ab_max |-> g[1], ab_res |-> g[2], dH |-> dH,
                               distribution |-> d[1], profile |-> d[2], units |-> u])

\* rshyst: JilesAtherton(alpha, a, Ms, k, c, dH, wa=..., Ka=..., theta=0, phi=0,
\* sat_tol=..., integrator=...)
NewJilesAtherton ==
    /\ out.op = "none"
    /\ \E alpha \in {Zero, Half}, dH \in FineStepInputs, wa \in {Zero, Half},
          Ka \in {Zero, One}, tol \in TolInputs, int \in IntegratorInputs :
          \E r \in {JAInit(alpha, One, One, One, Q(1, 10), dH, wa, Ka, Zero, Zero, tol, int)} :
              /\ mdl' = r.obj
              /\ born' = r.obj
              /\ out' = Ended("JilesAtherton", r,
                              [alpha |-> alpha, a |-> One, Ms |-> One, k |-> One,
                               c |-> Q(1, 10), dH |-> dH, wa |-> wa, Ka |-> Ka,
                               theta |-> Zero, phi |-> Zero,
                               sat_tol |-> tol, integrator |-> int])

\* the arrays offered as a custom distribution: for the grid of nine points,
\* and one of unequal weights for the grid of twenty-five
Ones == [i \in DOMAIN UnitGrid(2) |-> One]

Skewed == [i \in DOMAIN UnitGrid(4) |-> I(1 + ((i - 1) % 5))]

\* weights that fall off with the distance |a - b| from the diagonal: unchanged
\* by (alpha, beta) -> (-beta, -alpha)
Banded == [i \in DOMAIN UnitGrid(4) |-> I(5 - Abs(((i - 1) \div 5) - ((i - 1) % 5)))]

ArrayInputs ==
    {Ones, Append(Ones, One), [Ones EXCEPT ![5] = I(-1)],
     [i \in DOMAIN Ones |-> Zero], [i \in DOMAIN Ones |-> IF i = 3 THEN One ELSE Zero],
     Skewed, Banded}

RsDistributionInputs ==
    {[type |-> "str", name |-> d[1], params |-> d[2], profile |-> "ridge", pX |-> <<>>] :
        d \in {<<"gaussian", "()">>, <<"gaussian", "None">>, <<"UNIFORM", "()">>,
               <<"LORENTZ", "()">>}}
    \cup {[type |-> "ndarray", name |-> "", params |-> "None", profile |-> "", pX |-> pX] :
            pX \in ArrayInputs}
    \cup {[type |-> "list", name |-> "", params |-> "None", profile |-> "", pX |-> <<>>]}

\* rsradia: Preisach(Ms, ab_max, ab_res, dH=1, distribution=..., dist_params=None)
NewRsPreisach ==
    /\ out.op = "none"
    /\ \E Ms \in MsInputs, g \in {<<One, One>>, <<One, Half>>, <<One, Zero>>},
          dH \in {One, Q(1, 4), Zero}, d \in RsDistributionInputs :
          \E r \in {RsPreisachInit(Ms, g[1], g[2], dH, d)} :
              /\ mdl' = r.obj
              /\ born' = r.obj
              /\ out' = Ended("RsPreisach", r,
                              [Ms |-> Ms, ab_max |-> g[1], ab_res |-> g[2], dH |-> dH,
                               distribution |-> d])

\* rsradia: JilesAtherton(alpha, a, Ms, k, c, wa=0, Ka=0, psi=0, dH=1, integrator='RK4')
NewRsJilesAtherton ==
    /\ out.op = "none"
    /\ \E alpha \in {Zero, One}, wa \in {Zero, Half, I(2)}, Ka \in {Zero, One},
          psi \in {Zero, One, I(4)}, dH \in StepInputs, int \in {"RK4", "euler", "HEUN"} :
          \E r \in {RsJAInit(alpha, One, One, One, Q(1, 10), wa, Ka, psi, dH, int)} :
              /\ mdl' = r.obj
              /\ born' = r.obj
              /\ out' = Ended("RsJilesAtherton", r,
                              [alpha |-> alpha, a |-> One, Ms |-> One, k |-> One,
                               c |-> Q(1, 10), wa |-> wa, Ka |-> Ka, psi |-> psi,
                               dH |-> dH, integrator |-> int])

\* a method is called once the result of the call before it has been let go
Idle == out.op \in {"Preisach", "JilesAtherton", "RsPreisach", "RsJilesAtherton", "idle"}

\* the caller lets go of what the last method call returned
Discard ==
    /\ out.op \in {"convert_units", "path", "point", "integrate", "diffeq"}
    /\ out' = [NoOut EXCEPT !.op = "idle"]
    /\ UNCHANGED <<mdl, born>>

\* the field scale of the object relative to its construction
CurrentScale == IF mdl.cls = "Preisach" THEN RDiv(mdl.units, born.units) ELSE One

\* model.convert_units(units)
ConvertUnits ==
    /\ Idle
    /\ mdl.cls = "Preisach"
    /\ \E u \in NameInputs :
          \E r \in {convert_units(mdl, u)} :
              /\ mdl' = r.obj
              /\ out' = [NoOut EXCEPT !.op = "convert_units", !.status = r.status,
                                      !.args = <<u>>, !.prev = mdl]
              /\ UNCHANGED born

MaxSeg == 2

SegmentInputs ==
    {<<I(0), I(1)>>, <<I(1), I(-1)>>, <<I(0), I(0)>>, <<I(0), Half>>, <<I(-1), I(0)>>}

RECURSIVE PathsOf(_)
PathsOf(n) ==
    IF n = 0 THEN {<<>>}
    ELSE LET shorter == PathsOf(n - 1)
         IN  shorter \cup {Append(p, s) : p \in {q \in shorter : Len(q) = n - 1},
                                           s \in SegmentInputs}

PathInputs == PathsOf(MaxSeg) \ {<<>>}

M0Inputs == {Zero, Half}

\* the path and M0 handed to path(), in the units the object is in
InUnits(H_path) ==
    [p \in DOMAIN H_path |-> <<RMul(H_path[p][1], CurrentScale),
                               RMul(H_path[p][2], CurrentScale)>>]

Returned(op, r, args) ==
    [NoOut EXCEPT !.op = op, !.status = r.status, !.args = args, !.H = r.H, !.M = r.M,
                  !.cuts = r.cuts, !.R = r.R]

\* Preisach.path(H_path, M0)
PreisachPath ==
    /\ Idle
    /\ mdl.cls = "Preisach"
    /\ \E hp \in PathInputs, m0 \in M0Inputs :
          \E r \in {P_path(mdl, InUnits(hp), RMul(m0, CurrentScale))} :
              /\ mdl' = r.obj
              /\ out' = Returned("path", r, <<InUnits(hp), RMul(m0, CurrentScale)>>)
    /\ UNCHANGED born

\* JilesAtherton.path(H_path, M0)
JilesAthertonPath ==
    /\ Idle
    /\ mdl.cls = "JilesAtherton"
    /\ \E hp \in PathInputs, m0 \in M0Inputs :
          \E r \in {JA_path(mdl, hp, m0)} :
              /\ mdl' = r.obj
              /\ out' = Returned("path", r, <<hp, m0>>)
    /\ UNCHANGED born

\* rsradia: JilesAtherton.path(H_path, M0)
RsJilesAthertonPath ==
    /\ Idle
    /\ mdl.cls = "RsJilesAtherton"
    /\ \E hp \in PathInputs, m0 \in M0Inputs :
          \E r \in {RsJA_path(mdl, hp, m0)} :
              /\ mdl' = r.obj
              /\ out' = Returned("path", r, <<hp, m0>>)
    /\ UNCHANGED born

CurveInputs == {"initial", "Upper", "lower", "minor"}

\* model.point(H_point, curve)
Point ==
    /\ Idle
    /\ mdl.cls \in {"Preisach", "JilesAtherton"}
    /\ \E h \in {Zero, Half}, curve \in CurveInputs :
          \E r \in {point(mdl, RMul(h, CurrentScale), curve)} :
              /\ mdl' = r.obj
              /\ out' = [NoOut EXCEPT !.op = "point", !.status = r.status,
                                      !.args = <<RMul(h, CurrentScale), curve>>,
                                      !.val = r.val]
    /\ UNCHANGED born

\* JilesAtherton.diffeq(H, M, delta), called on its own; He is the effective
\* field its anhysteretic terms were evaluated at
DiffeqCall ==
    /\ Idle
    /\ mdl.cls = "JilesAtherton"
    /\ \E H \in {Zero, Half, RNeg(Half)}, M \in {Zero, One, RNeg(One)}, delta \in {-1, 1} :
          out' = [NoOut EXCEPT !.op = "diffeq", !.status = "ok", !.args = <<H, M, delta>>,
                               !.val = diffeq(mdl, H, M, delta),
                               !.He = EffectiveField(mdl, H, M, delta)]
    /\ UNCHANGED <<mdl, born>>

\* the intervals, steps and functions offered to the integrators
BoundsInputs == {<<Zero, One>>, <<One, Zero>>, <<Zero, Zero>>, <<Zero, Half>>, <<One, Half>>}

DtInputs == {One, Half, Q(2, 5), I(-1), RNeg(Half), Zero}

\* The Dormand-Prince stage sums of a non-zero slope have numerators beyond the
\* 32-bit integers of TLC, so RK45 is driven with the zero slope only.
FunctionsFor(name) == IF name = "RK45" THEN {"zero"} ELSE FunctionKeys

\* integrators.EULER / RK4 / RK45 (X0, bounds, dt, diffEq), called on their own
IntegratorCall ==
    /\ out.op = "none"
    /\ \E name \in {"EULER", "RK4", "RK45"}, X0 \in {Zero, One}, b \in BoundsInputs,
          dt \in DtInputs :
        \E fn \in FunctionsFor(name) :
          \E r \in {Integrator(name, X0, b[1], b[2], dt, fn)} :
              out' = [NoOut EXCEPT !.op = "integrate", !.status = r.status,
                                   !.args = [name |-> name, X0 |-> X0, bounds |-> b,
                                             dt |-> dt, fn |-> fn],
                                   !.M = r.X]
    /\ UNCHANGED <<mdl, born>>

Next ==
    \/ IntegratorCall
    \/ DiffeqCall
    \/ NewPreisach
    \/ NewJilesAtherton
    \/ NewRsPreisach
    \/ NewRsJilesAtherton
    \/ RsJilesAthertonPath
    \/ ConvertUnits
    \/ PreisachPath
    \/ JilesAthertonPath
    \/ Point
    \/ Discard

Spec == Init /\ [][Next]_vars

(***************************************************************************)
(* Properties of path()                                                    *)
(***************************************************************************)
\* C1: in JilesAtherton.path, for every list of segments and every M0, the first
\* magnetization sample of the output equals M0, and the first output sample of
\* every later segment equals the last sample produced for the segment before it.
C1_PathChainsFromM0 ==
    (out.op = "path" /\ out.status = "ok"
        /\ mdl.cls \in {"JilesAtherton", "RsJilesAtherton"}) =>
        /\ out.M[1] = out.args[2]
        /\ \A k \in 2..Len(out.cuts) : out.M[out.cuts[k]] = out.M[out.cuts[k] - 1]

\* a path of one segment that ends where it starts
ZeroLength(H_path) == Len(H_path) = 1 /\ H_path[1][1] = H_path[1][2]

\* C2: for the Jiles-Atherton and the Preisach model, every H0 and every M0,
\* path([[H0, H0]], M0) completes without error and returns exactly one sample,
\* whose magnetization equals M0.
C2_ZeroLengthSegment ==
    (out.op = "path" /\ mdl.cls \in {"Preisach", "JilesAtherton"}
        /\ ZeroLength(out.args[1])) =>
        (out.status = "ok" /\ Len(out.M) = 1 /\ out.M[1] = out.args[2])

(***************************************************************************)
(* Properties of convert_units()                                           *)
(***************************************************************************)
\* the object o with every field-valued member multiplied by cf
Rescaled(o, cf) ==
    [o EXCEPT !.dH = RMul(o.dH, cf), !.units = RMul(o.units, cf),
              !.H_major = [j \in DOMAIN o.H_major |-> RMul(o.H_major[j], cf)],
              !.M_major = [j \in DOMAIN o.M_major |-> RMul(o.M_major[j], cf)],
              !.remanence = [j \in DOMAIN o.remanence |-> RMul(o.remanence[j], cf)],
              !.coercivity = [j \in DOMAIN o.coercivity |-> RMul(o.coercivity[j], cf)],
              !.Ms = RMul(o.Ms, cf), !.ab_max = RMul(o.ab_max, cf),
              !.ab = [j \in DOMAIN o.ab |-> <<RMul(o.ab[j][1], cf), RMul(o.ab[j][2], cf)>>],
              !.density = [j \in DOMAIN o.density |-> RMul(o.density[j], cf)]]

\* the scale factor of a unit name, whatever its case
FactorOf(name) ==
    CASE name = "SI" -> Q(1, 1)
      [] name = "mm" -> Q(1, 1000)
      [] name = "Tesla" -> Num(1, 1, 0, 1)
      [] name = "GAUSS" -> Num(10000, 1, 0, 1)

\* C3: after any sequence of convert_units calls every scaled member (dH,
\* units, H_major, M_major, remanence, coercivity, and Ms, ab_max, the grid and
\* the density of Preisach) equals its construction-time value times the factor
\* of the last target over the factor of the construction unit; so converting
\* to B and back to A restores every one of them exactly.
C3_UnitsScaleEveryMember ==
    mdl.cls = "Preisach" =>
        /\ mdl = Rescaled(born, RDiv(mdl.units, born.units))
        /\ (out.op = "convert_units" /\ out.status = "ok") =>
               mdl.units = FactorOf(out.args[1])
        /\ mdl.units = born.units => mdl = born

\* a model converted away from its construction unit and back again
C3_RoundTrip ==
    /\ out.op = "convert_units" /\ out.status = "ok"
    /\ out.prev.units # born.units
    /\ mdl.units = born.units
    /\ Len(mdl.H_major) > 0 /\ Len(mdl.density) > 0

\* the names handed to convert_units that are one of SI, MM, TESLA, GAUSS when
\* compared without regard to case
Recognised == {"SI", "mm", "Tesla", "GAUSS"}

\* C4: convert_units with a name that is not one of SI, MM, TESLA, GAUSS
\* (compared case-insensitively) raises an error and leaves units, dH, H_major,
\* M_major, remanence, coercivity and the model-specific parameters unchanged;
\* with a recognized name it never raises.
C4_UnknownUnitRejected ==
    out.op = "convert_units" =>
        IF out.args[1] \in Recognised THEN out.status = "ok"
        ELSE out.status # "ok" /\ mdl = out.prev

\* an unknown name handed to a model that was converted before
C4_RejectedAfterConversion ==
    /\ out.op = "convert_units" /\ out.args[1] \notin Recognised
    /\ out.status = "ValueError"
    /\ mdl.units # born.units /\ Len(mdl.H_major) > 0

(***************************************************************************)
(* Properties of the major loop                                            *)
(***************************************************************************)
\* C5: for every valid parameter set (every positive dH, integer or
\* fractional) and for both models, H_major and M_major have the same length.
C5_MajorListsSameLength ==
    mdl.cls \in {"Preisach", "JilesAtherton"} => Len(mdl.H_major) = Len(mdl.M_major)

\* H[lo], ..., H[hi - 1] (0-based) never falls / never rises
NonDecreasing(H, lo, hi) == \A j \in (lo + 1)..(hi - 1) : RLe(H[j], H[j + 1])

NonIncreasing(H, lo, hi) == \A j \in (lo + 1)..(hi - 1) : RGe(H[j], H[j + 1])

\* C6: with n = len(H_major), H_major is non-decreasing on [0, int(0.2n)),
\* non-increasing on [int(0.2n), int(0.6n)) and non-decreasing on [int(0.6n), n).
C6_ThreeMonotoneBranches ==
    mdl.cls # "none" =>
        LET n == Len(mdl.H_major)
        IN  /\ NonDecreasing(mdl.H_major, 0, (2 * n) \div 10)
            /\ NonIncreasing(mdl.H_major, (2 * n) \div 10, (6 * n) \div 10)
            /\ NonDecreasing(mdl.H_major, (6 * n) \div 10, n)

\* a Jiles-Atherton loop of a fractional step that rises, falls and rises again
C6_FullLoop ==
    /\ mdl.cls = "JilesAtherton" /\ mdl.dH = Half
    /\ Len(mdl.H_major) >= 10
    /\ RLt(mdl.H_major[1], mdl.H_major[(2 * Len(mdl.H_major)) \div 10])
    /\ RGt(mdl.H_major[(2 * Len(mdl.H_major)) \div 10 + 1],
           mdl.H_major[(6 * Len(mdl.H_major)) \div 10])
    /\ RLt(mdl.H_major[(6 * Len(mdl.H_major)) \div 10 + 1],
           mdl.H_major[Len(mdl.H_major)])

\* density(alpha, beta) = density(-beta, -alpha) on every grid point
SymmetricDensity(o) ==
    \A i, j \in DOMAIN o.ab :
        (o.ab[j][1] = RNeg(o.ab[i][2]) /\ o.ab[j][2] = RNeg(o.ab[i][1])) =>
            o.density[j] = o.density[i]

\* C7: for a Preisach model whose density satisfies density(alpha, beta) =
\* density(-beta, -alpha) on every grid point, the two remanence values are
\* negatives of each other and the two coercivity values are negatives of each
\* other.
C7_SymmetricCriticals ==
    (mdl.cls \in {"Preisach", "RsPreisach"} /\ SymmetricDensity(mdl)) =>
        /\ mdl.remanence[1] = RNeg(mdl.remanence[2])
        /\ mdl.coercivity[1] = RNeg(mdl.coercivity[2])

(***************************************************************************)
(* Properties of the constructors                                          *)
(***************************************************************************)
\* x <= 0
NonPositive(x) == x.n <= 0

\* the constructor arguments the documentation calls invalid, per class
InvalidPreisachArgs(a) ==
    \/ NonPositive(a.dH) \/ NonPositive(a.Ms)
    \/ NonPositive(a.ab_max) \/ NonPositive(a.ab_res)
    \/ a.units \notin Recognised
    \/ a.distribution \notin {"UNIFORM", "GAUSSIAN", "GMIXTURE"}

InvalidJilesAthertonArgs(a) ==
    \/ \E x \in {a.dH, a.alpha, a.a, a.Ms, a.k, a.c} : NonPositive(x)
    \/ a.wa.n < 0 \/ RGt(a.wa, Q(1, 1))
    \/ a.integrator \notin {"EULER", "RK4", "rk4", "euler"}

InvalidRsPreisachArgs(a) ==
    \/ NonPositive(a.dH) \/ NonPositive(a.Ms)
    \/ NonPositive(a.ab_max) \/ NonPositive(a.ab_res)
    \/ (a.distribution.type = "str"
          /\ a.distribution.name \notin {"UNIFORM", "gaussian", "GAUSSIAN", "GMIXTURE"})

\* C8: constructing a model with any of dH, alpha, a, Ms, k, c, ab_max, ab_res
\* non-positive, with wa outside [0, 1], with psi outside [0, pi], or with an
\* unrecognized unit, integrator or distribution name raises an error before
\* any major-loop computation starts, and never proceeds.
C8_InvalidArgumentsRejected ==
    ((out.op = "Preisach" /\ InvalidPreisachArgs(out.args))
        \/ (out.op = "JilesAtherton" /\ InvalidJilesAthertonArgs(out.args))
        \/ (out.op = "RsPreisach" /\ InvalidRsPreisachArgs(out.args))
        \/ (out.op = "RsJilesAtherton"
              /\ (InvalidJilesAthertonArgs(out.args)
                    \/ out.args.psi.n < 0 \/ RGt(out.args.psi, I(3))))) =>
        (out.status # "ok" /\ ~out.major)

\* the number of points of the (alpha, beta) grid the constructor generates
GridPoints(ab_max, ab_res) ==
    (Ceil(RDiv(RMul(I(2), ab_max), ab_res)) + 1) * (Ceil(RDiv(RMul(I(2), ab_max), ab_res)) + 1)

\* C9: constructing a Preisach model with a caller-supplied density grid raises
\* an error whenever the grid contains a negative value or its number of
\* points differs from that of the generated (alpha, beta) grid, and accepts
\* it otherwise; no major loop is computed in the error cases.
C9_CustomDensityChecked ==
    (out.op = "RsPreisach" /\ ~InvalidRsPreisachArgs(out.args)
        /\ out.args.distribution.type = "ndarray") =>
        IF \/ \E i \in DOMAIN out.args.distribution.pX : out.args.distribution.pX[i].n < 0
           \/ Len(out.args.distribution.pX) # GridPoints(out.args.ab_max, out.args.ab_res)
        THEN out.status # "ok" /\ ~out.major
        ELSE out.status = "ok"

\* C10: after construction of a Preisach model and after any sequence of
\* convert_units, path and point calls, every density weight is non-negative,
\* the weight is zero at every grid point with alpha >= beta, and the weights
\* sum to the model's current Ms.
C10_DensityNormalised ==
    mdl.cls = "Preisach" =>
        /\ \A i \in DOMAIN mdl.density :
              /\ mdl.density[i].n >= 0
              /\ RGe(mdl.ab[i][1], mdl.ab[i][2]) => mdl.density[i] = Zero
        /\ SumSeq(mdl.density) = mdl.Ms

(***************************************************************************)
(* Properties of the density constructors                                  *)
(***************************************************************************)
\* the number of intervals of the grid the constructor builds from its arguments
GridIntervals(a) == Round(I(Ceil(RDiv(RMul(I(2), a.ab_max), a.ab_res))))

\* C11: for a grid of n (alpha, beta) points, each selectable density
\* constructor (UNIFORM, GAUSSIAN, GMIXTURE) returns exactly n weights, one per
\* grid point, all non-negative and summing to 1, so that the Preisach
\* constructor can mask and rescale it against the n-point grid.
C11_OneWeightPerGridPoint ==
    (out.op = "Preisach" /\ ~InvalidPreisachArgs(out.args)) =>
        LET pX == Distribution(out.args.distribution, GridIntervals(out.args),
                               out.args.profile)
        IN  /\ Len(pX) = Len(UnitGrid(GridIntervals(out.args)))
            /\ \A i \in DOMAIN pX : pX[i].n >= 0
            /\ SumSeq(pX) = One
            /\ out.status # "IndexError"

(***************************************************************************)
(* Properties of the hysteron states                                       *)
(***************************************************************************)
\* every hysteron state of every listed sample is -1 or +1
TwoValued(Rs) == \A j \in DOMAIN Rs : \A i \in DOMAIN Rs[j] : Rs[j][i] \in {-1, 1}

\* a sample at field H while the field increases: on where beta < H, as before
\* where beta > H
TurnedOn(before, after, H, ab) ==
    \A i \in DOMAIN ab :
        /\ RLt(ab[i][2], H) => after[i] = 1
        /\ RGt(ab[i][2], H) => after[i] = before[i]

\* a sample at field H while the field decreases: off where alpha > H, as
\* before where alpha < H
TurnedOff(before, after, H, ab) ==
    \A i \in DOMAIN ab :
        /\ RGt(ab[i][1], H) => after[i] = -1
        /\ RLt(ab[i][1], H) => after[i] = before[i]

\* the segment of a path that sample j belongs to
SegmentOf(cuts, j) ==
    CHOOSE k \in DOMAIN cuts : cuts[k] <= j /\ \A l \in DOMAIN cuts : cuts[l] <= j => l <= k

\* C12: in Preisach major-loop construction and in Preisach.path, every
\* hysteron state R_i is in {-1, +1} at every sample; a sample taken while the
\* field increases sets R_i = +1 for every hysteron with beta_i < H and leaves
\* every hysteron with beta_i > H unchanged; a sample taken while the field
\* decreases sets R_i = -1 for every hysteron with alpha_i > H and leaves every
\* hysteron with alpha_i < H unchanged.
C12_HysteronSwitching ==
    /\ (out.op = "Preisach" \/ (out.op = "path" /\ mdl.cls = "Preisach")) =>
          TwoValued(out.R)
    /\ mdl.cls = "Preisach" =>
          \A j \in 2..Len(mdl.H_major) :
              IF j <= mdl.nInit \/ j > mdl.nInit + mdl.nUpper
              THEN TurnedOn(mdl.R_major[j - 1], mdl.R_major[j], mdl.H_major[j], mdl.ab)
              ELSE TurnedOff(mdl.R_major[j - 1], mdl.R_major[j], mdl.H_major[j], mdl.ab)
    /\ (out.op = "path" /\ out.status = "ok" /\ mdl.cls = "Preisach") =>
          \A j \in DOMAIN out.H :
              IF RGt(out.args[1][SegmentOf(out.cuts, j)][2],
                     out.args[1][SegmentOf(out.cuts, j)][1])
              THEN TurnedOn(out.R[j], out.R[j + 1], out.H[j], mdl.ab)
              ELSE TurnedOff(out.R[j], out.R[j + 1], out.H[j], mdl.ab)

(***************************************************************************)
(* Properties of the fixed-step integrators                                *)
(***************************************************************************)
\* C13: for every initial state X0, interval [t0, t1] (forward or backward)
\* and non-zero step dt, EULER, RK4 and RK45 all return the same number of
\* states N = round(ceil(|t1 - t0|) / |dt|) + 1, never fewer than one, and the
\* first returned state equals X0.
C13_IntegratorSize ==
    (out.op = "integrate" /\ out.args.dt # Zero) =>
        /\ out.status = "ok"
        /\ Len(out.M) = Round(RDiv(I(Ceil(RAbs(RSub(out.args.bounds[2], out.args.bounds[1])))),
                                   RAbs(out.args.dt))) + 1
        /\ Len(out.M) >= 1
        /\ out.M[1] = out.args.X0

\* a backward RK45 call that returned three states
C13_BackwardRK45 ==
    /\ out.op = "integrate" /\ out.status = "ok"
    /\ out.args.name = "RK45"
    /\ RLt(out.args.bounds[2], out.args.bounds[1])
    /\ out.args.dt.n < 0
    /\ Len(out.M) = 3
    /\ out.M[1] = out.args.X0

\* C14: for every interval [t0, t1] and every step dt whose sign matches the
\* direction of travel, the step count chosen by the integrators covers the
\* interval: the time of the last returned state, t0 + (N - 1)*dt, is at or
\* beyond t1 in the direction of travel (|(N - 1)*dt| >= |t1 - t0|).
C14_StepsCoverInterval ==
    LET t0 == out.args.bounds[1]
        t1 == out.args.bounds[2]
        dt == out.args.dt
    IN  (/\ out.op = "integrate" /\ out.status = "ok"
         /\ \/ RGt(t1, t0) /\ dt.n > 0
            \/ RLt(t1, t0) /\ dt.n < 0) =>
            RGe(RAbs(RMul(I(Len(out.M) - 1), dt)), RAbs(RSub(t1, t0)))

(***************************************************************************)
(* Properties of the Jiles-Atherton constructors                           *)
(***************************************************************************)
\* C16: after constructing a Jiles-Atherton model, if either wa or Ka was given
\* as zero then the stored wa, Ka and psi are all zero; if both were nonzero
\* then wa and psi are stored as given (and Ka as Ka/MU0).  The psi of the
\* rshyst class is the array of the easy axis's three angles, made from the
\* theta and phi it is given.
C16_IsotropicCollapse ==
    (out.op \in {"JilesAtherton", "RsJilesAtherton"} /\ out.status = "ok") =>
        IF out.args.wa = Zero \/ out.args.Ka = Zero
        THEN /\ mdl.wa = Zero
             /\ mdl.Ka = Zero
             /\ IF mdl.cls = "JilesAtherton"
                THEN \A i \in DOMAIN mdl.psi : mdl.psi[i] = Zero
                ELSE mdl.psi = Zero
        ELSE /\ mdl.wa = out.args.wa
             /\ mdl.Ka = RDiv(out.args.Ka, MU0)
             /\ IF mdl.cls = "JilesAtherton"
                THEN mdl.theta = out.args.theta /\ mdl.phi = out.args.phi
                ELSE mdl.psi = out.args.psi

(***************************************************************************)
(* Properties of point()                                                   *)
(***************************************************************************)
\* the sets of (up to two) places of a list of distances that are nearest: no
\* place outside the set is nearer than a place inside it
NearestSets(dists) ==
    {S \in SUBSET (DOMAIN dists) :
        /\ Cardinality(S) = IF Len(dists) < 2 THEN Len(dists) ELSE 2
        /\ \A i \in S : \A l \in (DOMAIN dists) \ S : RLe(dists[i], dists[l])}

\* the segment [lo, hi) of the major loop that belongs to a curve name
SegmentBounds(curve, n) ==
    CASE curve = "initial" -> <<0, (2 * n) \div 10>>
      [] curve = "upper" -> <<(2 * n) \div 10, (6 * n) \div 10>>
      [] curve = "lower" -> <<(6 * n) \div 10, n>>

\* |H_i - H| over the segment of the curve and the field of the last point() call
PointDistances ==
    LET b == SegmentBounds(Lower(out.args[2]), Len(mdl.H_major))
    IN  [j \in 1..(b[2] - b[1]) |-> RAbs(RSub(mdl.H_major[b[1] + j], out.args[1]))]

\* C17: for curve in {initial, upper, lower} (case-insensitive), point(H, curve)
\* restricts H_major/M_major to indices [0,int(.2n)), [int(.2n),int(.6n)) or
\* [int(.6n),n) respectively, picks the two samples i, j of that segment with
\* smallest |H_i - H|, and returns (M_i*|H_i - H| + M_j*|H_j - H|) / dH; for
\* any other curve name it raises an error instead of returning a value.
C17_PointInterpolates ==
    out.op = "point" =>
        IF Lower(out.args[2]) \in {"initial", "upper", "lower"}
        THEN LET lo == SegmentBounds(Lower(out.args[2]), Len(mdl.H_major))[1]
             IN  /\ out.status = "ok"
                 /\ \E S \in NearestSets(PointDistances) :
                       /\ \A j \in S : lo + j <= Len(mdl.M_major)
                       /\ out.val = RDiv(SumSeq([j \in DOMAIN PointDistances |->
                                                  IF j \in S
                                                  THEN RMul(mdl.M_major[lo + j], PointDistances[j])
                                                  ELSE Zero]),
                                         mdl.dH)
        ELSE out.status # "ok"

\* a point on the upper curve, named in capitals, whose two nearest samples are
\* not the first two of the segment, with a non-zero value returned
C17_UpperPoint ==
    /\ out.op = "point" /\ out.status = "ok"
    /\ out.args[2] = "Upper"
    /\ {1, 2} \notin NearestSets(PointDistances)
    /\ out.val.n # 0

(***************************************************************************)
(* Frame of the method calls                                               *)
(***************************************************************************)
\* C18: after construction, any sequence of path() and point() calls on a
\* model leaves H_major, M_major, remanence, coercivity, dH, units and every
\* model parameter (including the Preisach grid and density) unchanged; only
\* convert_units changes them, so repeating the same path() call returns the
\* same result.
C18_CallsLeaveModelAlone ==
    [][/\ out'.op \in {"path", "point"} => mdl' = mdl
       /\ (mdl.cls # "none" /\ mdl' # mdl) => out'.op = "convert_units"
       /\ (out'.op = "path" /\ mdl'.cls = "Preisach") =>
             LET again == P_path(mdl', out'.args[1], out'.args[2])
             IN  again.status = out'.status /\ again.H = out'.H /\ again.M = out'.M
       /\ (out'.op = "path" /\ mdl'.cls = "JilesAtherton") =>
             LET again == JA_path(mdl', out'.args[1], out'.args[2])
             IN  again.status = out'.status /\ again.H = out'.H /\ again.M = out'.M]_vars

\* a path of two or more samples returned by a Preisach model whose units were
\* converted after its construction
C18_PathAfterConversion ==
    /\ out.op = "path" /\ out.status = "ok"
    /\ mdl.cls = "Preisach"
    /\ mdl.units # born.units
    /\ Len(out.M) >= 2
    /\ mdl.M_major # out.M

(***************************************************************************)
(* Termination of the saturation loop                                      *)
(***************************************************************************)
\* C19: the saturation-seeking loop of Jiles-Atherton major-loop construction
\* is bounded: for every parameter set and every behaviour of the relative
\* magnetization change it stops after a finite number of iterations,
\* reporting a configuration error when its iteration bound is exceeded rather
\* than looping forever.  A construction that ends "NoConvergence" is one whose
\* loop was still running, with nothing raised, when its passes were cut off.
C19_SaturationLoopBounded ==
    out.op \in {"JilesAtherton", "RsJilesAtherton"} => out.status # "NoConvergence"

(***************************************************************************)
(* The Runge-Kutta step                                                    *)
(***************************************************************************)
\* the classical fourth-order step of f from (t, x):
\* k1 = f(t, x), k2 = f(t + dt/2, x + dt*k1/2), k3 = f(t + dt/2, x + dt*k2/2),
\* k4 = f(t + dt, x + dt*k3), next x = x + dt*(k1 + 2*k2 + 2*k3 + k4)/6
ClassicalStep(fn, t, x, dt) ==
    LET k1 == Fun(fn, t, x)
        k2 == Fun(fn, RAdd(t, RMul(Half, dt)), RAdd(x, RMul(RMul(dt, k1), Half)))
        k3 == Fun(fn, RAdd(t, RMul(Half, dt)), RAdd(x, RMul(RMul(dt, k2), Half)))
        k4 == Fun(fn, RAdd(t, dt), RAdd(x, RMul(dt, k3)))
    IN  RAdd(x, RMul(RMul(dt, Q(1, 6)),
                     RAdd(RAdd(k1, RMul(I(2), k2)), RAdd(RMul(I(2), k3), k4))))

\* C20: for every derivative function f, state x, time t and step dt, one RK4
\* step equals the classical fourth-order Runge-Kutta step: k1 = f(t, x),
\* k2 = f(t + dt/2, x + dt*k1/2), k3 = f(t + dt/2, x + dt*k2/2),
\* k4 = f(t + dt, x + dt*k3), next x = x + dt*(k1 + 2*k2 + 2*k3 + k4)/6.
C20_ClassicalRK4Step ==
    (out.op = "integrate" /\ out.status = "ok" /\ out.args.name = "RK4") =>
        \A i \in 1..(Len(out.M) - 1) :
            out.M[i + 1] = ClassicalStep(out.args.fn,
                                         RAdd(out.args.bounds[1], RMul(I(i - 1), out.args.dt)),
                                         out.M[i], out.args.dt)

(***************************************************************************)
(* The Dormand-Prince coefficients                                         *)
(***************************************************************************)
\* the least common multiple of the denominators of a list of fractions
RECURSIVE CommonDenominator(_)
CommonDenominator(row) ==
    IF row = <<>> THEN 1
    ELSE LET l == CommonDenominator(Tail(row))
         IN  (Head(row)[2] \div GCD(Head(row)[2], l)) * l

\* the sum of the numerators of a list of fractions brought to the denominator l
RECURSIVE NumeratorSum(_, _)
NumeratorSum(row, l) ==
    IF row = <<>> THEN 0
    ELSE Head(row)[1] * (l \div Head(row)[2]) + NumeratorSum(Tail(row), l)

\* the fractions of row sum to the fraction c
SumsTo(row, c) ==
    NumeratorSum(row, CommonDenominator(row)) * c[2] = c[1] * CommonDenominator(row)

\* C21: the stage coefficients used by RK45 are exactly the Dormand-Prince
\* tableau: for every stage j the coefficients of row a[j] sum to the node c[j]
\* (1/5, 3/10, 4/5, 8/9, 1, 1), the weights b sum to 1, and every step uses the
\* fixed step dt (the number of states is the one the step dt gives).
C21_DormandPrinceTableau ==
    (out.op = "integrate" /\ out.status = "ok" /\ out.args.name = "RK45") =>
        /\ \A j \in DOMAIN RK45a : SumsTo(RK45a[j], RK45c[j])
        /\ RK45c = <<<<1, 5>>, <<3, 10>>, <<4, 5>>, <<8, 9>>, <<1, 1>>, <<1, 1>>>>
        /\ SumsTo(RK45b, <<1, 1>>)
        /\ Len(out.M) = get_size(out.args.bounds[1], out.args.bounds[2], out.args.dt)

(***************************************************************************)
(* Properties of Jiles-Atherton major-loop construction                    *)
(***************************************************************************)
\* one step of the model's integrator from magnetization M at field H
OneStep(o, M, H, dH) ==
    IF o.integrator = "EULER" THEN EulerSteps(0, 2, <<M>>, H, dH, 1, o)[2]
    ELSE RK4Steps(0, 2, <<M>>, H, dH, 1, o)[2]

\* C22: in Jiles-Atherton major-loop construction, each iteration of the
\* saturation-seeking loop advances H by exactly dH and advances M by exactly
\* one integrator step of size dH from the previous sample, for every positive
\* dH (integer or fractional); the loop stops at the first iteration where
\* |M_new - M_prev| / |M_prev| is not greater than sat_tol.
C22_RampOneStepPerPass ==
    (out.op = "JilesAtherton" /\ out.status = "ok") =>
        \A j \in 2..mdl.nInit :
            /\ mdl.H_major[j] = RAdd(mdl.H_major[j - 1], mdl.dH)
            /\ mdl.M_major[j] = OneStep(mdl, mdl.M_major[j - 1], mdl.H_major[j - 1], mdl.dH)
            /\ RelChangeAbove(mdl.M_major[j], mdl.M_major[j - 1], out.args.sat_tol)
                  <=> (j < mdl.nInit)

\* C23: in Jiles-Atherton major-loop construction, if the initial ramp took s
\* steps of dH, the descending (upper) branch takes exactly 2*s steps of -dH
\* from the saturation field, and the ascending (lower) branch takes the same
\* number of steps of +dH, ending at the field where the descending branch
\* started; hence the lowest field of the loop is the negative of the highest.
C23_BranchesTwiceTheRamp ==
    (out.op = "JilesAtherton" /\ out.status = "ok") =>
        LET s == mdl.nInit - 1
            up == SubSeq(mdl.H_major, mdl.nInit + 1, mdl.nInit + mdl.nUpper)
            lo == SubSeq(mdl.H_major, mdl.nInit + mdl.nUpper + 1, Len(mdl.H_major))
        IN  /\ Len(up) - 1 = 2 * s
            /\ Len(lo) - 1 = Len(up) - 1
            /\ up[1] = mdl.H_major[mdl.nInit]
            /\ \A j \in 2..Len(up) : up[j] = RSub(up[j - 1], mdl.dH)
            /\ \A j \in 2..Len(lo) : lo[j] = RAdd(lo[j - 1], mdl.dH)
            /\ Last(lo) = up[1]
            /\ Min(mdl.H_major) = RNeg(Max(mdl.H_major))

\* C24: for every H, M and sweep sign delta in {-1, +1}, the Jiles-Atherton
\* derivative function never evaluates a/He or coth(He/a) with He = 0:
\* whenever H + alpha*M is exactly zero, He is first replaced by the non-zero
\* value 1e-9*delta, and otherwise He = H + alpha*M is used unchanged.
C24_EffectiveFieldNudged ==
    out.op = "diffeq" =>
        LET raw == RAdd(out.args[1], RMul(mdl.alpha, out.args[2]))
        IN  /\ out.He # Zero
            /\ raw = Zero => out.He = [n |-> out.args[3], d |-> 1, e |-> -9, u |-> 0]
            /\ raw # Zero => out.He = raw

\* a call with a non-zero field and magnetization whose effective field is zero,
\* on a sweep down
C24_CancelledField ==
    /\ out.op = "diffeq"
    /\ out.args[1] # Zero /\ out.args[2] # Zero
    /\ RAdd(out.args[1], RMul(mdl.alpha, out.args[2])) = Zero
    /\ out.args[3] = -1
    /\ out.He.n = -1

(***************************************************************************)
(* Properties of the critical points                                       *)
(***************************************************************************)
\* the H and M lists of the descending and the ascending branch of the major
\* loop a constructor listed
UpperH == SubSeq(out.made.H_major, out.made.nInit + 1, out.made.nInit + out.made.nUpper)

LowerH ==
    SubSeq(out.made.H_major, out.made.nInit + out.made.nUpper + 1, Len(out.made.H_major))

UpperM == SubSeq(out.made.M_major, out.made.nInit + 1, out.made.nInit + out.made.mUpper)

LowerM ==
    SubSeq(out.made.M_major, out.made.nInit + out.made.mUpper + 1, Len(out.made.M_major))

\* a branch that runs from one sign of M to the other, every sample a number
Crosses(M) ==
    /\ Len(M) >= 2
    /\ \A j \in DOMAIN M : ~IsNaN(M[j])
    /\ Sgn(M[1]) * Sgn(Last(M)) = -1

\* the midpoints of the consecutive pairs of samples between which M changes sign
CrossingMidpoints(H, M) ==
    {RDiv(RAdd(H[j], H[j + 1]), I(2)) :
        j \in {i \in 1..(Len(M) - 1) : i + 1 <= Len(H) /\ Sgn(M[i]) # Sgn(M[i + 1])}}

\* C25: major-loop construction yields, for each of the upper and lower
\* branches, exactly one coercivity value, equal to the midpoint
\* (H_j + H_{j+1})/2 of the consecutive pair of samples between which M changes
\* sign; this holds for every constructed loop, including when M is exactly
\* zero at a sampled point of the branch.  The loops meant are those of valid
\* arguments whose M lists are as long as their H lists and whose branches run
\* from one sign of M to the other.
C25_OneCoercivityPerBranch ==
    (/\ out.op \in {"Preisach", "JilesAtherton"}
     /\ out.op = "Preisach" => ~InvalidPreisachArgs(out.args)
     /\ out.made.M_major # <<>>
     /\ out.made.mUpper = out.made.nUpper
     /\ Len(out.made.M_major) = Len(out.made.H_major)
     /\ Crosses(UpperM) /\ Crosses(LowerM)) =>
        /\ out.status = "ok"
        /\ Len(mdl.coercivity) = 2
        /\ \E c \in DOMAIN mdl.coercivity : mdl.coercivity[c] \in CrossingMidpoints(UpperH, UpperM)
        /\ \E c \in DOMAIN mdl.coercivity : mdl.coercivity[c] \in CrossingMidpoints(LowerH, LowerM)


(***************************************************************************)
(* C26                                                                     *)
(***************************************************************************)

\* C26: the remanence pair and the coercivity pair of a model are stored in the
\* same branch order: element 0 of each is taken from the upper (descending)
\* branch and element 1 from the lower (ascending) branch, so
\* remanence[0] >= 0 >= remanence[1] and coercivity[0] <= 0 <= coercivity[1].
\* The models meant are the Preisach models of valid arguments, as their
\* constructor left them.
C26_CriticalsSameBranchOrder ==
    (/\ out.op = "Preisach"
     /\ out.status = "ok"
     /\ ~InvalidPreisachArgs(out.args)) =>
        /\ Len(mdl.remanence) = 2
        /\ Len(mdl.coercivity) = 2
        /\ RGe(mdl.remanence[1], Zero) /\ RGe(Zero, mdl.remanence[2])
        /\ RLe(mdl.coercivity[1], Zero) /\ RLe(Zero, mdl.coercivity[2])
        /\ mdl.coercivity[1] \in CrossingMidpoints(UpperH, UpperM)
        /\ mdl.coercivity[2] \in CrossingMidpoints(LowerH, LowerM)


(***************************************************************************)
(* C27                                                                     *)
(***************************************************************************)

\* C27: for every positive dH (integer or fractional), every list of segments
\* and every M0, JilesAtherton.path returns field and magnetization arrays of
\* equal length, so that sample i of M is the magnetization at sample i of H.
C27_PathArraysSameLength ==
    (/\ out.op = "path"
     /\ mdl.cls = "JilesAtherton"
     /\ RGt(mdl.dH, Zero)) =>
        /\ out.status = "ok"
        /\ Len(out.M) = Len(out.H)


(***************************************************************************)
(* C28                                                                     *)
(***************************************************************************)

\* the call path([s], M0) on the object the last call was made on
OneSegment(s, M0) == P_path(mdl, <<s>>, M0)

\* the samples of M that the last call produced for its segment k
SegmentSamples(k) ==
    SubSeq(out.M, out.cuts[k],
           IF k = Len(out.cuts) THEN Len(out.M) ELSE out.cuts[k + 1] - 1)

\* C28: for the Preisach model, calling path once with two consecutive segments
\* [s1, s2] and M0 yields, for segment s2, the same magnetization samples as
\* calling path([s2], M1) where M1 is the final magnetization returned by
\* path([s1], M0): applying field changes one call at a time, feeding back only
\* the last M, gives the same trajectory as a single multi-segment call.  The
\* models meant have positive dH, Ms and ab_max, and the segments are consecutive
\* when the second starts where the first ends.
C28_SplitCallsSameTrajectory ==
    (/\ out.op = "path"
     /\ out.status = "ok"
     /\ mdl.cls = "Preisach"
     /\ ~NonPositive(mdl.dH) /\ ~NonPositive(mdl.Ms) /\ ~NonPositive(mdl.ab_max)
     /\ Len(out.args[1]) = 2
     /\ out.args[1][2][1] = out.args[1][1][2]) =>
        /\ OneSegment(out.args[1][1], out.args[2]).status = "ok"
        /\ OneSegment(out.args[1][2],
                      Last(OneSegment(out.args[1][1], out.args[2]).M)).status = "ok"
        /\ OneSegment(out.args[1][2],
                      Last(OneSegment(out.args[1][1], out.args[2]).M)).M
               = SegmentSamples(2)


(***************************************************************************)
(* C29                                                                     *)
(***************************************************************************)

\* C29: for both models and every constructed major loop of length n, the index
\* ranges [0, int(0.2n)), [int(0.2n), int(0.6n)) and [int(0.6n), n) used to
\* select the initial, upper and lower curves coincide exactly with the runs of
\* samples that major-loop construction produced for the initial ramp, the
\* descending sweep and the ascending sweep.
C29_CurveRangesAreTheSweeps ==
    (/\ out.op \in {"Preisach", "JilesAtherton"}
     /\ out.status = "ok") =>
        /\ CurveIndices("initial", Len(mdl.H_major)) = <<0, mdl.nInit>>
        /\ CurveIndices("upper", Len(mdl.H_major)) = <<mdl.nInit, mdl.nInit + mdl.nUpper>>
        /\ CurveIndices("lower", Len(mdl.H_major))
               = <<mdl.nInit + mdl.nUpper, mdl.nInit + mdl.nUpper + mdl.nLower>>


(***************************************************************************)
(* C30                                                                     *)
(***************************************************************************)

\* every sample of M lies between -Ms and Ms
WithinSaturation(M, Ms) ==
    \A i \in DOMAIN M : RLe(RNeg(Ms), M[i]) /\ RLe(M[i], Ms)

\* C30: for every Preisach model, every magnetization sample of the major loop
\* and of any path() call satisfies -Ms <= M <= Ms, and the major loop reaches
\* full saturation at its turning points: M = +Ms at the last sample of the
\* initial ramp and of the ascending branch, and M = -Ms at the last sample of
\* the descending branch.
C30_MagnetizationWithinSaturation ==
    /\ (out.op = "Preisach" /\ out.status = "ok") =>
          /\ WithinSaturation(mdl.M_major, mdl.Ms)
          /\ mdl.M_major[mdl.nInit] = mdl.Ms
          /\ mdl.M_major[mdl.nInit + mdl.nUpper] = RNeg(mdl.Ms)
          /\ Last(mdl.M_major) = mdl.Ms
    /\ (out.op = "path" /\ out.status = "ok" /\ mdl.cls = "Preisach") =>
          WithinSaturation(out.M, mdl.Ms)

=============================================================================
